---- MODULE Spec2Model ----
(***************************************************************************)
(* Density normalizer and draw.io renderer of the architecture-diagram     *)
(* generator (app/dsl_render_validation.py, app/dsl_to_drawio.py).         *)
(*                                                                         *)
(* Strings are sequences of one-character strings, so that lower-casing,   *)
(* the regular-expression substitutions and the f-string formatting of     *)
(* ids are computed character by character as the code computes them.      *)
(***************************************************************************)
EXTENDS Integers, Sequences, FiniteSets, TLC

VARIABLES payload, prepared, shared, calls

vars == <<payload, prepared, shared, calls>>

\* ------------------------------------------------------------------ bounds
MaxZones == 3
MaxNodes == 2
MaxFlows == 1
MaxTbs == 1
MaxEntities == 4
MaxDrawn == 3
MaxMin == 2
MaxCalls == 2
MaxRawEntities == 2
MaxGridNodes == 22
MaxGridSecond == 1

\* ------------------------------------------------------- program constants
MIN_ZONES == 5
MIN_NODES == 25
MIN_FLOWS == 20
MIN_NODES_HARD == 1

\* ---------------------------------------------------------------- strings
Lowers == <<"a","b","c","d","e","f","g","h","i","j","k","l","m",
            "n","o","p","q","r","s","t","u","v","w","x","y","z">>
Uppers == <<"A","B","C","D","E","F","G","H","I","J","K","L","M",
            "N","O","P","Q","R","S","T","U","V","W","X","Y","Z">>
Digits == <<"0","1","2","3","4","5","6","7","8","9">>

Range(s) == {s[i] : i \in DOMAIN s}

Whitespace == {" ", "\t", "\n"}

\* str.lower() on one character
LowerCh(c) ==
  IF c \in Range(Uppers)
    THEN Lowers[CHOOSE i \in DOMAIN Uppers : Uppers[i] = c]
    ELSE c

LowerStr(s) == [i \in DOMAIN s |-> LowerCh(s[i])]

\* the character class [a-z0-9]
IsAlnum(c) == c \in Range(Lowers) \cup Range(Digits)

RECURSIVE LStrip(_, _)
LStrip(s, cs) ==
  IF s # <<>> /\ Head(s) \in cs THEN LStrip(Tail(s), cs) ELSE s

RECURSIVE RStrip(_, _)
RStrip(s, cs) ==
  IF s # <<>> /\ s[Len(s)] \in cs THEN RStrip(SubSeq(s, 1, Len(s) - 1), cs) ELSE s

\* str.strip(chars)
Strip(s, cs) == RStrip(LStrip(s, cs), cs)

\* re.sub(r"[^a-z0-9]+", "_", s): every maximal run outside the class becomes one "_"
RECURSIVE SubNonAlnum(_)
SubNonAlnum(s) ==
  IF s = <<>> THEN <<>>
  ELSE IF IsAlnum(Head(s)) THEN <<Head(s)>> \o SubNonAlnum(Tail(s))
  ELSE IF Len(s) >= 2 /\ ~IsAlnum(s[2]) THEN SubNonAlnum(Tail(s))
  ELSE <<"_">> \o SubNonAlnum(Tail(s))

\* re.sub(r"_+", "_", s)
RECURSIVE CollapseUnderscores(_)
CollapseUnderscores(s) ==
  IF s = <<>> THEN <<>>
  ELSE IF Head(s) = "_" /\ Len(s) >= 2 /\ s[2] = "_" THEN CollapseUnderscores(Tail(s))
  ELSE <<Head(s)>> \o CollapseUnderscores(Tail(s))

\* str(n)
RECURSIVE ToStr(_)
ToStr(n) ==
  IF n < 0 THEN <<"-">> \o ToStr(-n)
  ELSE IF n < 10 THEN <<Digits[n + 1]>>
  ELSE ToStr(n \div 10) \o <<Digits[(n % 10) + 1]>>

\* ------------------------------------------------------ zone id normalizing
ZONE_ALIASES ==
  { <<<<"d","m","z","_","z","o","n","e">>, <<"d","m","z">>>>,
    <<<<"d","m","z">>, <<"d","m","z">>>>,
    <<<<"i","n","t","e","r","n","e","t">>, <<"i","n","t","e","r","n","e","t">>>>,
    <<<<"e","x","t","e","r","n","a","l">>, <<"i","n","t","e","r","n","e","t">>>>,
    <<<<"p","e","r","i","m","e","t","e","r">>, <<"d","m","z">>>>,
    <<<<"i","n","t","e","r","n","a","l">>, <<"i","n","t","e","r","n","a","l">>>>,
    <<<<"o","n","_","p","r","e","m">>, <<"o","n","_","p","r","e","m">>>>,
    <<<<"o","n","-","p","r","e","m">>, <<"o","n","_","p","r","e","m">>>>,
    <<<<"o","n","p","r","e","m">>, <<"o","n","_","p","r","e","m">>>>,
    <<<<"c","l","o","u","d">>, <<"c","l","o","u","d">>>>,
    <<<<"t","e","n","a","n","t">>, <<"t","e","n","a","n","t">>>>,
    <<<<"d","a","t","a">>, <<"d","a","t","a">>>>,
    <<<<"d","a","t","a","_","l","a","y","e","r">>, <<"d","a","t","a">>>>,
    <<<<"i","d","e","n","t","i","t","y">>, <<"i","d","e","n","t","i","t","y">>>>,
    <<<<"v","e","n","d","o","r">>, <<"v","e","n","d","o","r">>>> }

_normalize_zone_id(raw) ==
  LET s1 == LowerStr(Strip(raw, Whitespace))
      s2 == SubNonAlnum(s1)
      s3 == Strip(CollapseUnderscores(s2), {"_"})
  IN  IF s3 = <<>> THEN <<"z","o","n","e">> ELSE s3

_canonical_zone_id(raw) ==
  LET normalized == _normalize_zone_id(raw)
  IN  IF \E p \in ZONE_ALIASES : p[1] = normalized
        THEN (CHOOSE p \in ZONE_ALIASES : p[1] = normalized)[2]
        ELSE normalized

\* ------------------------------------------------------------- data model
\* A graph payload: the four collections the normalizer and renderer read.
\* An absent or None "zone" of a node is the empty string, as `n.get("zone") or ""`.
Graph(zs, ns, fs, tbs) ==
  [zones |-> zs, nodes |-> ns, flows |-> fs, trust_boundaries |-> tbs]

EmptyGraph == Graph(<<>>, <<>>, <<>>, <<>>)

Ids(es) == [i \in DOMAIN es |-> es[i].id]

\* sorted(zones, key=lambda z: z.get("order", 0)): stable, ascending
RECURSIVE SortByOrder(_)
SortByOrder(zs) ==
  IF zs = <<>> THEN <<>>
  ELSE LET rest == SortByOrder(SubSeq(zs, 1, Len(zs) - 1))
           z    == zs[Len(zs)]
           k    == Cardinality({i \in DOMAIN rest : rest[i].order <= z.order})
       IN  SubSeq(rest, 1, k) \o <<z>> \o SubSeq(rest, k + 1, Len(rest))

\* keys of {e["id"]: e for e in es} in insertion order (a repeated key keeps
\* its first position)
RECURSIVE DictKeys(_)
DictKeys(ks) ==
  IF ks = <<>> THEN <<>>
  ELSE LET front == DictKeys(SubSeq(ks, 1, Len(ks) - 1))
           k     == ks[Len(ks)]
       IN  IF k \in Range(front) THEN front ELSE Append(front, k)

\* ------------------------------------------------------- density expansion
SynthZone(next_z) ==
  [id    |-> <<"z","o","n","e","_">> \o ToStr(next_z),
   name  |-> <<"Z","o","n","e"," ">> \o ToStr(next_z + 1),
   order |-> next_z,
   color |-> <<"#","e","1","d","5","e","7">>]

SynthTb(next_z, tbs, prev_id, zid) ==
  [id            |-> <<"t","b","_">> \o ToStr(next_z),
   label         |-> <<"T","B">> \o ToStr(Len(tbs) + 1),
   between_zones |-> <<prev_id, zid>>]

\* while len(zones) < min_zones: append a zone, and a boundary to its predecessor
RECURSIVE ExpandZones(_, _, _, _)
ExpandZones(zones, tbs, next_z, min_zones) ==
  IF Len(zones) < min_zones
    THEN LET z      == SynthZone(next_z)
             zones2 == Append(zones, z)
             tbs2   == IF Len(zones2) >= 2
                         THEN Append(tbs, SynthTb(next_z, tbs, zones[Len(zones)].id, z.id))
                         ELSE tbs
         IN  ExpandZones(zones2, tbs2, next_z + 1, min_zones)
    ELSE [zones |-> zones, trust_boundaries |-> tbs]

SynthNode(next_n, zone_order) ==
  [id    |-> <<"n","o","d","e","_">> \o ToStr(next_n),
   label |-> <<"C","o","m","p","o","n","e","n","t"," ">> \o ToStr(next_n + 1),
   zone  |-> zone_order[(next_n % Len(zone_order)) + 1].id,
   type  |-> "service"]

\* while len(nodes) < min_nodes: append a node, round-robin over zone_order
RECURSIVE ExpandNodes(_, _, _, _, _)
ExpandNodes(nodes, keys, next_n, zone_order, min_nodes) ==
  IF Len(nodes) < min_nodes
    THEN LET n == SynthNode(next_n, zone_order)
         IN  ExpandNodes(Append(nodes, n),
                         IF n.id \in Range(keys) THEN keys ELSE Append(keys, n.id),
                         next_n + 1, zone_order, min_nodes)
    ELSE [nodes |-> nodes, keys |-> keys]

SynthFlow(next_f, node_list) ==
  LET i == next_f % (Len(node_list) - 1)
  IN  [id         |-> <<"f","l","o","w","_">> \o ToStr(next_f),
       source     |-> node_list[i + 1],
       target     |-> node_list[i + 2],
       flow_type  |-> "api",
       protocol   |-> <<"H","T","T","P","S">>,
       auth       |-> <<>>,
       data_class |-> <<>>,
       label      |-> <<>>]

\* while len(flows) < min_flows and len(node_list) >= 2: append a flow
RECURSIVE ExpandFlows(_, _, _, _)
ExpandFlows(flows, next_f, node_list, min_flows) ==
  IF Len(flows) < min_flows /\ Len(node_list) >= 2
    THEN ExpandFlows(Append(flows, SynthFlow(next_f, node_list)),
                     next_f + 1, node_list, min_flows)
    ELSE flows

\* _expand_dsl_to_density: raised is the ZeroDivisionError of `next_n % len(zone_order)`
_expand_dsl_to_density(dsl, node_keys, min_zones, min_nodes, min_flows) ==
  LET zt         == ExpandZones(dsl.zones, dsl.trust_boundaries, Len(dsl.zones), min_zones)
      zone_order == SortByOrder(zt.zones)
      raised     == Len(dsl.nodes) < min_nodes /\ zone_order = <<>>
      nk         == IF raised THEN [nodes |-> dsl.nodes, keys |-> node_keys]
                    ELSE ExpandNodes(dsl.nodes, node_keys, Len(dsl.nodes), zone_order, min_nodes)
      flows      == ExpandFlows(dsl.flows, Len(dsl.flows), nk.keys, min_flows)
  IN  [raised |-> raised,
       graph  |-> Graph(zt.zones, nk.nodes, flows, zt.trust_boundaries)]

\* ------------------------------------------------------------ normalization
\* lines 172-187: canonical ids, a per-canonical counter for the suffix, the
\* raw -> new id map (a later zone with the same raw id overwrites the entry)
RECURSIVE NormalizeZones(_, _, _, _)
NormalizeZones(zones, seen_canonical, zone_id_map, new_zones) ==
  IF zones = <<>>
    THEN [zone_id_map |-> zone_id_map, zones |-> new_zones]
    ELSE LET z      == Head(zones)
             c      == _canonical_zone_id(z.id)
             dup    == c \in DOMAIN seen_canonical
             count  == IF dup THEN seen_canonical[c] + 1 ELSE 0
             new_id == IF dup THEN c \o <<"_">> \o ToStr(count) ELSE c
         IN  NormalizeZones(Tail(zones),
                            (c :> count) @@ seen_canonical,
                            (z.id :> new_id) @@ zone_id_map,
                            Append(new_zones, [z EXCEPT !.id = new_id]))

\* a variant of RemapNode that also writes the node's id over its label
remap_and_relabel(n, zone_id_map) ==
  [n EXCEPT !.zone = IF n.zone \in DOMAIN zone_id_map THEN zone_id_map[n.zone] ELSE n.zone,
            !.label = n.id]

\* line 191: n["zone"] = zone_id_map.get(zid, zid), assigned to the caller's node
RemapNode(n, zone_id_map) ==
  [n EXCEPT !.zone = IF n.zone \in DOMAIN zone_id_map THEN zone_id_map[n.zone] ELSE n.zone]

NoMap == [x \in {} |-> <<>>]

ErrZoneRequired == <<"At least one zone is required.">>
ErrNodesRequired == <<"At least min_nodes_hard node(s) are required.">>

\* What validate_and_prepare_dsl leaves behind.  status: "ok" (a graph, no errors),
\* "errors" (None and the messages), "raised" (an exception left the function).
\* arg_nodes is the caller's nodes list as the call leaves it; shared is the number
\* of leading nodes of the returned graph that are the caller's own node objects.
Prepared(status, graph, errors, arg_nodes, sh) ==
  [status |-> status, graph |-> graph, errors |-> errors,
   arg_nodes |-> arg_nodes, shared |-> sh]

\* the return of a call to _expand_dsl_to_density, or the exception it raised
Expanded(ex, arg_nodes, sh) ==
  IF ex.raised THEN Prepared("raised", EmptyGraph, <<>>, arg_nodes, 0)
  ELSE Prepared("ok", ex.graph, <<>>, arg_nodes, sh)

\* lines 192-193: one message for each node whose zone is no zone id
InvalidZoneErrors(nodes, zone_ids) ==
  LET bad == SelectSeq(nodes, LAMBDA n : n.zone \notin zone_ids)
  IN  [i \in DOMAIN bad |-> <<"Node references invalid zone", bad[i].id, bad[i].zone>>]

\* lines 194-232, with the zones normalized, the nodes remapped, and the messages
\* of the node loop
PrepareChecked(dsl, zones, nodes, errs, p) ==
  IF errs # <<>>
    THEN Prepared("errors", EmptyGraph, errs, nodes, 0)
  ELSE IF Len(nodes) < p.min_nodes_hard
    THEN Prepared("errors", EmptyGraph, <<ErrNodesRequired>>, nodes, 0)
  ELSE IF /\ p.expand_to_meet_density
          /\ \/ Len(zones) < p.min_zones
             \/ Len(nodes) < p.min_nodes
             \/ Len(dsl.flows) < p.min_flows
    THEN Expanded(_expand_dsl_to_density(Graph(zones, nodes, dsl.flows, dsl.trust_boundaries),
                                         DictKeys(Ids(nodes)),
                                         p.min_zones, p.min_nodes, p.min_flows),
                  nodes, Len(nodes))
  ELSE Prepared("ok", Graph(zones, nodes, dsl.flows, dsl.trust_boundaries), <<>>,
                nodes, Len(nodes))

\* lines 189-193, with the zones normalized
PrepareRemapped(dsl, zones, nodes, p) ==
  PrepareChecked(dsl, zones, nodes, InvalidZoneErrors(nodes, Range(Ids(zones))), p)

\* lines 172-193, with the normalized zones and the raw -> new id map
PrepareNormalized(dsl, nz, p) ==
  PrepareRemapped(dsl, nz.zones,
                  [i \in DOMAIN dsl.nodes |-> RemapNode(dsl.nodes[i], nz.zone_id_map)], p)

Params(mz, mn, mf, mh, ex) ==
  [min_zones |-> mz, min_nodes |-> mn, min_flows |-> mf, min_nodes_hard |-> mh,
   expand_to_meet_density |-> ex]

\* a variant of Prepare that asks for a zone whether or not expansion is on
PrepareRequiringZones(dsl, p) ==
  IF dsl.zones = <<>>
    THEN Prepared("errors", EmptyGraph, <<ErrZoneRequired>>, dsl.nodes, 0)
  ELSE PrepareNormalized(dsl, NormalizeZones(SortByOrder(dsl.zones), [x \in {} |-> 0],
                                             NoMap, <<>>), p)

\* validate_and_prepare_dsl, its thresholds in one record
Prepare(dsl, p) ==
  IF dsl.zones = <<>> /\ ~p.expand_to_meet_density
    THEN Prepared("errors", EmptyGraph, <<ErrZoneRequired>>, dsl.nodes, 0)
  ELSE IF dsl.zones = <<>>
    THEN Expanded(_expand_dsl_to_density(EmptyGraph, <<>>,
                                         p.min_zones, p.min_nodes, p.min_flows),
                  dsl.nodes, 0)
  ELSE PrepareNormalized(dsl, NormalizeZones(SortByOrder(dsl.zones), [x \in {} |-> 0],
                                             NoMap, <<>>), p)

validate_and_prepare_dsl(dsl, min_zones, min_nodes, min_flows, min_nodes_hard, expand) ==
  Prepare(dsl, Params(min_zones, min_nodes, min_flows, min_nodes_hard, expand))

\* ------------------------------------------------------- layout constants
CANVAS_WIDTH == 1400
ZONE_HEADER_HEIGHT == 32
NODE_W == 160
NODE_H == 60
GAP_X == 40
GAP_Y == 40
PADDING == 40
TB_HEIGHT == 24
LEGEND_HEIGHT == 160
LEGEND_WIDTH == 400

Max(a, b) == IF a >= b THEN a ELSE b
Min(a, b) == IF a <= b THEN a ELSE b
CeilDiv(a, b) == (a + b - 1) \div b

RECURSIVE SumTo(_, _)
SumTo(f, n) == IF n = 0 THEN 0 ELSE f[n] + SumTo(f, n - 1)

\* a dict entry written several times holds the last value written: the last of
\* the indices at which a key was written, 0 when it was not
LastIndex(hits) ==
  IF hits = {} THEN 0 ELSE CHOOSE i \in hits : \A j \in hits : j <= i

\* concatenation of a sequence of sequences
Flatten(ss) ==
  LET F[i \in 0..Len(ss)] == IF i = 0 THEN <<>> ELSE F[i - 1] \o ss[i]
  IN  F[Len(ss)]

\* a variant of _next_id that leaves the counter out of the id
prefix_alone(prefix, c) == prefix

\* _next_id: f"{prefix}{c}"
_next_id(prefix, c) == prefix \o ToStr(c)

\* " | ".join(parts)
RECURSIVE Join(_)
Join(parts) ==
  IF parts = <<>> THEN <<>>
  ELSE IF Len(parts) = 1 THEN parts[1]
  ELSE parts[1] \o <<" ", "|", " ">> \o Join(Tail(parts))

\* _flow_label
_flow_label(f) ==
  IF f.label # <<>> THEN f.label
  ELSE LET joined == Strip(Join(SelectSeq(<<f.protocol, f.auth, f.data_class>>,
                                          LAMBDA p : p # <<>>)), Whitespace)
       IN  IF joined # <<>> THEN joined ELSE <<" ">>

\* _add_cell: one mxCell with its mxGeometry child; source and target are the
\* empty string when the attribute is not set.  zone is the graph zone id the cell
\* was emitted for (zone containers and node cells) and ent the graph entity id.
Cell(cell_id, parent_id, kind, value, style, x, y, width, height, relative, source, target, zone, ent) ==
  [id |-> cell_id, parent |-> parent_id, kind |-> kind, value |-> value, style |-> style,
   x |-> x, y |-> y, width |-> width, height |-> height, relative |-> relative,
   source |-> source, target |-> target, zone |-> zone, ent |-> ent]

\* lines 165-168: the global column count
cols_max == Max(1, (CANVAS_WIDTH - 2 * PADDING + GAP_X) \div (NODE_W + GAP_X))

\* a variant of ZoneHeight that counts whole rows only
height_of_whole_rows(n_count) ==
  LET rows == IF n_count # 0 THEN n_count \div cols_max ELSE 1
  IN  ZONE_HEADER_HEIGHT + (PADDING + rows * (NODE_H + GAP_Y))

\* lines 169-176: a zone's height
ZoneHeight(n_count) ==
  LET rows == IF n_count # 0 THEN CeilDiv(n_count, cols_max) ELSE 1
  IN  ZONE_HEADER_HEIGHT + (PADDING + rows * (NODE_H + GAP_Y))

\* line 207
ZoneStyle(fill) ==
  <<"swimlane;horizontal=1;startSize=32;fillColor=">> \o fill
    \o <<";strokeColor=#6c8ebf;fontStyle=1;fontSize=12;whiteSpace=wrap;html=1;">>

DefaultColor == <<"#","d","a","e","8","f","c">>

\* the style strings, each one word of the document
STYLE_APP == <<"rounded=1;whiteSpace=wrap;html=1;fillColor=#d5e8d4;strokeColor=#82b366;strokeWidth=1;">>
STYLE_SERVICE == <<"rounded=1;whiteSpace=wrap;html=1;fillColor=#d5e8d4;strokeColor=#82b366;strokeWidth=1;">>
STYLE_API == <<"shape=hexagon;perimeter=hexagonPerimeter2;whiteSpace=wrap;html=1;fillColor=#dae8fc;strokeColor=#6c8ebf;strokeWidth=1;">>
STYLE_DATA_STORE == <<"shape=cylinder3;whiteSpace=wrap;html=1;boundedLbl=1;backgroundOutline=1;size=15;fillColor=#fff2cc;strokeColor=#d6b656;strokeWidth=1;">>
STYLE_IDENTITY == <<"shape=ellipse;whiteSpace=wrap;html=1;fillColor=#e1d5e7;strokeColor=#9673a6;strokeWidth=1;">>
STYLE_SECURITY == <<"shape=shield;whiteSpace=wrap;html=1;fillColor=#f8cecc;strokeColor=#b85450;strokeWidth=2;">>
STYLE_VENDOR == <<"rounded=1;whiteSpace=wrap;html=1;fillColor=#f5f5f5;strokeColor=#666666;dashed=1;strokeWidth=1;">>
STYLE_EXTERNAL == <<"rounded=1;whiteSpace=wrap;html=1;fillColor=#f5f5f5;strokeColor=#666666;dashed=1;strokeWidth=1;">>
STYLE_EDGE_SOLID == <<"endArrow=block;html=1;rounded=0;curved=0;orthogonalLoop=1;exitX=1;exitY=0.5;exitDx=0;exitDy=0;entryX=0;entryY=0.5;entryDx=0;entryDy=0;strokeColor=#6c8ebf;strokeWidth=2;">>
STYLE_EDGE_DASHED == <<"endArrow=block;html=1;rounded=0;dashed=1;curved=0;orthogonalLoop=1;exitX=1;exitY=0.5;exitDx=0;exitDy=0;entryX=0;entryY=0.5;entryDx=0;entryDy=0;strokeColor=#999999;strokeWidth=1;">>

\* _node_style: m.get(node_type, STYLE_APP)
_node_style(node_type) ==
  CASE node_type = "app"              -> STYLE_APP
    [] node_type = "service"          -> STYLE_SERVICE
    [] node_type = "api"              -> STYLE_API
    [] node_type = "data_store"       -> STYLE_DATA_STORE
    [] node_type = "identity"         -> STYLE_IDENTITY
    [] node_type = "security_control" -> STYLE_SECURITY
    [] node_type = "vendor"           -> STYLE_VENDOR
    [] node_type = "external"         -> STYLE_EXTERNAL
    [] OTHER                          -> STYLE_APP

_flow_style(flow_type) ==
  IF flow_type \in {"log", "telemetry"} THEN STYLE_EDGE_DASHED ELSE STYLE_EDGE_SOLID

STYLE_TB == <<"shape=rect;fillColor=none;strokeColor=#b85450;strokeWidth=2;dashed=1;html=1;">>
STYLE_LEGEND == <<"rounded=0;whiteSpace=wrap;html=1;fillColor=#f5f5f5;strokeColor=#666666;align=left;verticalAlign=top;spacingLeft=8;spacingTop=6;fontSize=11;">>
STYLE_TB_LABEL == <<"text;html=1;strokeColor=none;fillColor=none;align=center;verticalAlign=middle;fontSize=10;fontColor=#b85450;">>

\* legend_text, its bullet character written as *; "&" is a character of its own,
\* as the serializer escapes it
legend_text ==
  <<"Legend", "&", "#xa;* Solid line: API / Auth / Data flow",
    "&", "#xa;* Dashed line: Log / Telemetry",
    "&", "#xa;* Red dashed: Trust boundary",
    "&", "#xa;* Rounded rect: App/Service | Hexagon: API | Cylinder: Data store",
    "&", "#xa;* Ellipse: Identity | Shield: Control | Dashed border: External/Vendor">>

\* a variant of zone_cell_ids that attaches every node cell to the root layer
parent_is_root_layer(zones, zid) == <<"1">>

\* zone_cell_ids[zid] after the loop of lines 201-208: a zone id written more
\* than once holds the id of the last zone cell emitted for it
zone_cell_ids(zones, zid) ==
  _next_id(<<"zone-">>, LastIndex({i \in DOMAIN zones : zones[i].id = zid}))

\* a variant of flow_is_drawn that skips no flow
every_flow_is_drawn(placed_ids, f) == TRUE

\* lines 250-254: a flow is drawn when both ends are keys of node_cell_ids
flow_is_drawn(placed_ids, f) == f.source \in placed_ids /\ f.target \in placed_ids

\* lines 155-184, with the zones sorted and the nodes of each: the height and
\* the top of every zone, and the nodes in the order their cells are emitted
\* (zi the zone's position, idx the node's position in the zone)
Geometry(zones, in_zone, height) ==
  [zones   |-> zones,
   in_zone |-> in_zone,
   height  |-> height,
   ytop    |-> [i \in DOMAIN zones |-> SumTo(height, i - 1)],
   places  |-> Flatten([i \in DOMAIN zones |->
                 [k \in DOMAIN in_zone[i] |-> [zi |-> i, idx |-> k - 1, n |-> in_zone[i][k]]]])]

ZoneNodes(zones, in_zone) ==
  Geometry(zones, in_zone, [i \in DOMAIN zones |-> ZoneHeight(Len(in_zone[i]))])

Layout(zones, nodes) ==
  ZoneNodes(zones, [i \in DOMAIN zones |-> SelectSeq(nodes, LAMBDA n : n.zone = zones[i].id)])

\* zone_geometry[zid] as the dict holds it after the loop of lines 180-184
GeoIdx(lay, zid) == LastIndex({i \in DOMAIN lay.zones : lay.zones[i].id = zid})

\* lines 199-208
ZoneCells(lay) ==
  [i \in DOMAIN lay.zones |->
    Cell(_next_id(<<"zone-">>, i), <<"1">>, "zone",
         IF lay.zones[i].name # <<>> THEN lay.zones[i].name ELSE lay.zones[i].id,
         ZoneStyle(Strip(IF lay.zones[i].color # <<>> THEN lay.zones[i].color
                         ELSE DefaultColor, Whitespace)),
         0, lay.ytop[GeoIdx(lay, lay.zones[i].id)], CANVAS_WIDTH,
         lay.height[GeoIdx(lay, lay.zones[i].id)], "0", <<>>, <<>>,
         lay.zones[i].id, lay.zones[i].id)]

\* line 218
Cols(n_count) == Max(1, IF n_count # 0 THEN Min(cols_max, n_count) ELSE 1)

\* lines 220-223
NodeX(lay, p) == PADDING + (p.idx % Cols(Len(lay.in_zone[p.zi]))) * (NODE_W + GAP_X)
NodeY(lay, p) == PADDING + (p.idx \div Cols(Len(lay.in_zone[p.zi]))) * (NODE_H + GAP_Y)

\* lines 225-226
InBounds(lay, p) ==
  /\ NodeX(lay, p) >= 0 /\ NodeY(lay, p) >= 0
  /\ NodeX(lay, p) + NODE_W <= CANVAS_WIDTH
  /\ NodeY(lay, p) + NODE_H
       <= lay.height[GeoIdx(lay, lay.zones[p.zi].id)] - ZONE_HEADER_HEIGHT

\* lines 210-231
NodeCells(lay) ==
  [j \in DOMAIN lay.places |->
    Cell(_next_id(<<"node-">>, Len(lay.zones) + j),
         zone_cell_ids(lay.zones, lay.zones[lay.places[j].zi].id), "node",
         lay.places[j].n.label, _node_style(lay.places[j].n.type),
         NodeX(lay, lay.places[j]), NodeY(lay, lay.places[j]), NODE_W, NODE_H, "1",
         <<>>, <<>>, lay.zones[lay.places[j].zi].id, lay.places[j].n.id)]

\* node_cell_ids[nid] after the loop of lines 212-231
node_cell_ids(lay, nid) ==
  _next_id(<<"node-">>,
           Len(lay.zones) + LastIndex({j \in DOMAIN lay.places : lay.places[j].n.id = nid}))

\* a variant of DrawnBoundaries that draws none
no_boundary_drawn(lay, tbs) == <<>>

\* lines 234-239: the boundaries that are drawn, by position in trust_boundaries
DrawnBoundaries(lay, tbs) ==
  SelectSeq([i \in DOMAIN tbs |-> i],
            LAMBDA i : /\ Len(tbs[i].between_zones) >= 2
                       /\ tbs[i].between_zones[1] \in Range(Ids(lay.zones))
                       /\ tbs[i].between_zones[2] \in Range(Ids(lay.zones)))

\* line 242
TbLabel(tb, i) == Strip(IF tb.label # <<>> THEN tb.label ELSE <<"T","B">> \o ToStr(i), Whitespace)

\* a variant of TbY that draws every boundary at the top of the canvas
boundary_at_top(lay, tb) == 0

\* lines 240-241
TbY(lay, tb) ==
  lay.ytop[GeoIdx(lay, tb.between_zones[1])] + lay.height[GeoIdx(lay, tb.between_zones[1])]

\* lines 233-247: the line and the label of each drawn boundary; ctr is the
\* counter before the first
TbCells(lay, tbs, drawn, ctr) ==
  Flatten([k \in DOMAIN drawn |->
    << Cell(_next_id(<<"tb-">>, ctr + 2 * (k - 1)), <<"1">>, "tb",
            TbLabel(tbs[drawn[k]], drawn[k]), STYLE_TB,
            0, TbY(lay, tbs[drawn[k]]), CANVAS_WIDTH, 3, "0", <<>>, <<>>, <<>>,
            tbs[drawn[k]].id),
       Cell(_next_id(<<"tblbl-">>, ctr + 2 * (k - 1) + 1), <<"1">>, "tblbl",
            TbLabel(tbs[drawn[k]], drawn[k]), STYLE_TB_LABEL,
            (CANVAS_WIDTH \div 2) - 40, TbY(lay, tbs[drawn[k]]) - 16, 80, 16, "0",
            <<>>, <<>>, <<>>, tbs[drawn[k]].id) >>])

\* lines 249-258: one edge for each flow that is drawn; ctr is the counter before
\* the first
EdgeCells(lay, flows, ctr) ==
  [k \in DOMAIN flows |->
    Cell(_next_id(<<"edge-">>, ctr + (k - 1)), <<"1">>, "edge", _flow_label(flows[k]),
         _flow_style(flows[k].flow_type), 0, 0, 0, 0, "1",
         node_cell_ids(lay, flows[k].source), node_cell_ids(lay, flows[k].target),
         <<>>, flows[k].id)]

\* lines 186-189 and 260-269
LegendCell(lay, n_tbs, ctr) ==
  Cell(_next_id(<<"legend-">>, ctr), <<"1">>, "legend", legend_text, STYLE_LEGEND,
       CANVAS_WIDTH - LEGEND_WIDTH - 20,
       SumTo(lay.height, Len(lay.zones)) + TB_HEIGHT * n_tbs + 20,
       LEGEND_WIDTH, LEGEND_HEIGHT, "0", <<>>, <<>>, <<>>, <<>>)

\* lines 199-269: the cells in emission order; the counter starts at 1
EmitCells(lay, tbs, drawn_tbs, drawn_flows) ==
  ZoneCells(lay) \o NodeCells(lay)
    \o TbCells(lay, tbs, drawn_tbs, Len(lay.zones) + Len(lay.places) + 1)
    \o EdgeCells(lay, drawn_flows,
                 Len(lay.zones) + Len(lay.places) + 1 + 2 * Len(drawn_tbs))
    \o << LegendCell(lay, Len(tbs),
                     Len(lay.zones) + Len(lay.places) + 1 + 2 * Len(drawn_tbs)
                       + Len(drawn_flows)) >>

\* lines 150-269, with the layout: the cells of the document, or the layout
\* assertion of lines 225-226 that failed
LaidOut(g, lay) ==
  [asserted |-> \E j \in DOMAIN lay.places : ~InBounds(lay, lay.places[j]),
   cells    |-> EmitCells(lay, g.trust_boundaries,
                          DrawnBoundaries(lay, g.trust_boundaries),
                          SelectSeq(g.flows,
                                    LAMBDA f : flow_is_drawn(
                                      {lay.places[j].n.id : j \in DOMAIN lay.places}, f)))]

BuildCells(g) == LaidOut(g, Layout(SortByOrder(g.zones), g.nodes))

\* ---------------------------------------------------------- serialization
\* The document text is a sequence of characters.  A run of markup that the
\* serializer writes itself, holding none of < > ?, may stand in it as one word.

\* a variant of XmlEscapeCh that escapes nothing
WrittenAsIs(c) == <<c>>

\* ElementTree's _escape_attrib
XmlEscapeCh(c) ==
  CASE c = "&"  -> <<"&amp;">>
    [] c = "<"  -> <<"&lt;">>
    [] c = ">"  -> <<"&gt;">>
    [] c = "\"" -> <<"&quot;">>
    [] c = "\n" -> <<"&#10;">>
    [] c = "\t" -> <<"&#09;">>
    [] OTHER    -> <<c>>

XmlEscape(s) == Flatten([i \in DOMAIN s |-> XmlEscapeCh(s[i])])

\* name="value", after the element name or the attribute before it
Attr(name, value) == <<name>> \o XmlEscape(value) \o <<"\"">>

OptAttr(name, value) == IF value # <<>> THEN Attr(name, value) ELSE <<>>

\* f"{y}" of a float: the y of zones, boundaries, their labels and the legend
\* derives from y_cursor = 0.0
FloatStr(n) == ToStr(n) \o <<".0">>

\* one mxCell of _add_cell with its mxGeometry child
CellXml(c) ==
  <<"<", "mxCell">> \o Attr(" id=\"", c.id) \o Attr(" parent=\"", c.parent)
    \o OptAttr(" value=\"", c.value) \o OptAttr(" style=\"", c.style)
    \o (IF c.kind = "edge" THEN <<" edge=\"1\"">> ELSE <<" vertex=\"1\"">>)
    \o OptAttr(" source=\"", c.source) \o OptAttr(" target=\"", c.target) \o <<">">>
    \o <<"<", "mxGeometry">> \o Attr(" x=\"", ToStr(c.x)) \o Attr(" y=\"", IF c.kind \in {"zone", "tb", "tblbl", "legend"} THEN FloatStr(c.y) ELSE ToStr(c.y))
    \o Attr(" width=\"", ToStr(c.width)) \o Attr(" height=\"", ToStr(c.height))
    \o Attr(" relative=\"", <<c.relative>>) \o <<" as=\"geometry\" /", ">">>
    \o <<"<", "/mxCell", ">">>

\* ET.tostring(root_elem, encoding="unicode"): no declaration
tostring(cells) ==
  <<"<", "mxfile", " host=\"app.diagrams.net\" modified=\"2025-01-01T00:00:00.000Z\"", ">",
    "<", "diagram", " id=\"security-arch\" name=\"Security Reference Architecture\"", ">",
    "<", "mxGraphModel", " dx=\"1422\" dy=\"794\" grid=\"1\" gridSize=\"10\" guides=\"1\" tooltips=\"1\" connect=\"1\" arrows=\"1\" fold=\"1\" page=\"1\" pageScale=\"1\" pageWidth=\"1600\" pageHeight=\"3200\" math=\"0\" shadow=\"0\"", ">",
    "<", "root", ">",
    "<", "mxCell", " id=\"0\" /", ">",
    "<", "mxCell", " id=\"1\" parent=\"0\" /", ">">>
    \o Flatten([i \in DOMAIN cells |-> CellXml(cells[i])])
    \o <<"<", "/root", ">", "<", "/mxGraphModel", ">",
         "<", "/diagram", ">", "<", "/mxfile", ">">>

XmlDecl == <<"<", "?", "x", "m", "l">>

\* line 123
Declaration ==
  XmlDecl \o <<" ", "version=\"1.0\" encoding=\"UTF-8\"", "?", ">", "\n">>

StartsAt(s, i, pat) ==
  /\ i + Len(pat) - 1 <= Len(s)
  /\ \A k \in DOMAIN pat : s[i + k - 1] = pat[k]

Occurrences(s, pat) == {i \in DOMAIN s : StartsAt(s, i, pat)}

MinOf(S) == CHOOSE i \in S : \A j \in S : i <= j

\* str.index(pat, from): 1-based here; 0 when str.index would raise ValueError
Index(s, pat, from) ==
  LET hits == {i \in from..Len(s) : StartsAt(s, i, pat)}
  IN  IF hits = {} THEN 0 ELSE MinOf(hits)

Drop(s, n) == SubSeq(s, n + 1, Len(s))

\* re.sub(r"<\?xml[^>]*\?>\s*", "", s).  A match starts at a "<?xml" whose first
\* ">" after it has a "?" before it, and runs through the white space after that
\* ">"; a "<?xml" inside a match ends where the match ends, so what is left of s
\* is what no match covers
SubDeclarations(s) ==
  LET Gt(i)      == Index(s, <<">">>, i + Len(XmlDecl))
      Matches(i) == Gt(i) > i + Len(XmlDecl) /\ s[Gt(i) - 1] = "?"
      End(i)     == LET after == {k \in (Gt(i) + 1)..Len(s) : s[k] \notin Whitespace}
                    IN  IF after = {} THEN Len(s) ELSE MinOf(after) - 1
      spans      == {<<i, End(i)>> : i \in {i \in Occurrences(s, XmlDecl) : Matches(i)}}
      keep       == SelectSeq([k \in DOMAIN s |-> k],
                              LAMBDA k : \A sp \in spans : k < sp[1] \/ k > sp[2])
  IN  [j \in DOMAIN keep |-> s[keep[j]]]

\* lines 125-129: reached when out.count("<?xml") > 1
StripDeclarations(out) ==
  LET first  == Index(out, XmlDecl, 1)
      second == Index(out, <<"?", ">">>, first) + 1
      rest   == LStrip(Drop(out, second), Whitespace)
  IN  SubSeq(out, 1, second) \o <<"\n">> \o SubDeclarations(rest)

\* a text and the places of "<?xml" in it (out.count, out.index)
Counted(out) == [text |-> out, occ |-> Occurrences(out, XmlDecl)]

\* lines 123-127
Stripped(c) == IF Cardinality(c.occ) > 1 THEN Counted(StripDeclarations(c.text)) ELSE c

\* lines 128-132: the text, or the assertion that failed
Asserted(c) ==
  [asserted |-> ~ /\ Cardinality(c.occ) <= 1
                  /\ (Cardinality(c.occ) = 1 => MinOf(c.occ) = 1)
                  /\ \E i \in DOMAIN c.text : StartsAt(c.text, i, <<"<", "mxfile">>),
   text |-> c.text]

_serialize_xml_safe(cells) == Asserted(Stripped(Counted(Declaration \o tostring(cells))))

\* What dsl_to_drawio leaves behind.  status: "ok" (the document), "ValueError"
\* (validation failed), "AssertionError" (a layout or serialization assertion),
\* "raised" (another exception of the normalizer)
Rendered(v, status, cells, text) ==
  [status |-> status, graph |-> v.graph, errors |-> v.errors,
   cells |-> cells, text |-> text, arg_nodes |-> v.arg_nodes]

\* line 271
Serialized(v, cells, x) ==
  IF x.asserted THEN Rendered(v, "AssertionError", <<>>, <<>>)
  ELSE Rendered(v, "ok", cells, x.text)

\* lines 150-271
Drawn(v, b) ==
  IF b.asserted THEN Rendered(v, "AssertionError", <<>>, <<>>)
  ELSE Serialized(v, b.cells, _serialize_xml_safe(b.cells))

\* lines 146-271
Validated(v) ==
  IF v.status = "errors" THEN Rendered(v, "ValueError", <<>>, <<>>)
  ELSE IF v.status = "raised" THEN Rendered(v, "raised", <<>>, <<>>)
  ELSE Drawn(v, BuildCells(v.graph))

dsl_to_drawio(dsl) ==
  Validated(validate_and_prepare_dsl(dsl, MIN_ZONES, MIN_NODES, MIN_FLOWS, MIN_NODES_HARD, TRUE))

\* ------------------------------------------------------------------ schema
\* A raw payload is a function from the keys it carries to their values, and so
\* is every entity in its collections.  String values that the normalizer and
\* the renderer read are sequences of characters; type tags are words.  None
\* and the empty string are both the empty sequence.
\* dict with one more key
With(d, k, v) == (k :> v) @@ d

\* dict without a key
Without(d, k) == [x \in DOMAIN d \ {k} |-> d[x]]

NodeType ==
  {"app", "service", "api", "data_store", "identity", "security_control", "vendor", "external"}

FlowType == {"api", "auth", "data", "log", "telemetry", "generic"}

\* One pydantic model: its fields in declaration order, the required ones, the
\* default of every other, and what it does with keys that are no field.  Only
\* ArchitectureDSL sets model_config; the entity models keep pydantic's default,
\* which ignores such keys.
ZoneModel ==
  [name |-> "Zone", fields |-> <<"id", "name", "order", "color">>,
   required |-> {"id", "name", "order"}, extra |-> "ignore",
   defaults |-> [color |-> <<"#","d","a","e","8","f","c">>]]

TrustBoundaryModel ==
  [name |-> "TrustBoundary", fields |-> <<"id", "label", "between_zones">>,
   required |-> {"id"}, extra |-> "ignore",
   defaults |-> [label |-> <<>>, between_zones |-> <<>>]]

NodeModel ==
  [name |-> "Node", fields |-> <<"id", "label", "zone", "type", "tags">>,
   required |-> {"id", "label", "zone"}, extra |-> "ignore",
   defaults |-> [type |-> "app", tags |-> <<>>]]

GroupModel ==
  [name |-> "Group", fields |-> <<"id", "label", "zone", "children">>,
   required |-> {"id", "label", "zone"}, extra |-> "ignore",
   defaults |-> [children |-> <<>>]]

FlowModel ==
  [name |-> "Flow",
   fields |-> <<"id", "source", "target", "flow_type", "protocol", "auth", "data_class", "label">>,
   required |-> {"id", "source", "target"}, extra |-> "ignore",
   defaults |-> [flow_type |-> "generic", protocol |-> <<>>, auth |-> <<>>,
                 data_class |-> <<>>, label |-> <<>>]]

ControlModel ==
  [name |-> "Control", fields |-> <<"id", "scope", "control_type">>,
   required |-> {"id", "control_type"}, extra |-> "ignore",
   defaults |-> [scope |-> <<>>]]

\* the collections of ArchitectureDSL in declaration order, each with the model
\* of its members
Collections ==
  << <<"zones", ZoneModel>>, <<"trust_boundaries", TrustBoundaryModel>>,
     <<"groups", GroupModel>>, <<"nodes", NodeModel>>, <<"flows", FlowModel>>,
     <<"controls", ControlModel>> >>

ArchitectureDSL ==
  [name |-> "ArchitectureDSL",
   fields |-> <<"title", "zones", "trust_boundaries", "groups", "nodes", "flows", "controls">>,
   required |-> {}, extra |-> "forbid"]

\* a variant of Constraint that accepts every value
any_value_accepted(model, field, v) == <<>>

\* Field(ge=0) of Zone.order and the Literal types of Node.type and Flow.flow_type:
\* the message of the constraint a value breaks
Constraint(model, field, v) ==
  IF model = "Zone" /\ field = "order"
    THEN IF v >= 0 THEN <<>> ELSE <<"Input should be greater than or equal to 0">>
  ELSE IF model = "Node" /\ field = "type"
    THEN IF v \in NodeType THEN <<>> ELSE <<"Input should be one of the node types">>
  ELSE IF model = "Flow" /\ field = "flow_type"
    THEN IF v \in FlowType THEN <<>> ELSE <<"Input should be one of the flow types">>
  ELSE <<>>

\* one entry of ValidationError.errors(): loc is collection.index.field, or the
\* key alone at the top level (index -1)
SchemaError(coll, idx, field, msg) == [coll |-> coll, idx |-> idx, field |-> field, msg |-> msg]

\* the messages for one declared field of an entity
FieldErrors(m, e, field) ==
  IF field \notin DOMAIN e
    THEN IF field \in m.required THEN <<"Field required">> ELSE <<>>
  ELSE Constraint(m.name, field, e[field])

\* the members of a finite set, in some order
RECURSIVE SetToSeq(_)
SetToSeq(S) ==
  IF S = {} THEN <<>>
  ELSE LET x == CHOOSE y \in S : TRUE IN <<x>> \o SetToSeq(S \ {x})

\* the keys of a dict that a model rejects: those that are no field of it, when
\* its configuration forbids them
ExtraKeys(m, e) ==
  IF m.extra = "forbid" THEN SetToSeq(DOMAIN e \ Range(m.fields)) ELSE <<>>

\* the errors of the idx-th member of a collection
EntityErrors(coll, idx, m, e) ==
  Flatten([i \in DOMAIN m.fields |->
            LET msgs == FieldErrors(m, e, m.fields[i])
            IN  [k \in DOMAIN msgs |-> SchemaError(coll, idx, m.fields[i], msgs[k])]])
    \o LET keys == ExtraKeys(m, e)
       IN  [k \in DOMAIN keys |->
             SchemaError(coll, idx, keys[k], "Extra inputs are not permitted")]

\* the errors of one collection; an absent collection takes its default, the
\* empty list
CollectionErrors(data, coll, m) ==
  IF coll \notin DOMAIN data THEN <<>>
  ELSE Flatten([i \in DOMAIN data[coll] |-> EntityErrors(coll, i - 1, m, data[coll][i])])

\* the top-level keys that are no field: model_config = {"extra": "forbid"}
TopExtraErrors(data) ==
  LET keys == ExtraKeys(ArchitectureDSL, data)
  IN  [k \in DOMAIN keys |-> SchemaError(keys[k], -1, "", "Extra inputs are not permitted")]

\* an entity as the model holds it: the declared fields, defaults filled in
TypedEntity(m, e) ==
  [f \in Range(m.fields) |-> IF f \in DOMAIN e THEN e[f] ELSE m.defaults[f]]

TypedCollection(data, coll, m) ==
  IF coll \notin DOMAIN data THEN <<>>
  ELSE [i \in DOMAIN data[coll] |-> TypedEntity(m, data[coll][i])]

\* the errors of the ValidationError that ArchitectureDSL.model_validate(data)
\* raises; none when it returns
ValidationErrors(data) ==
  Flatten([i \in DOMAIN Collections |->
            CollectionErrors(data, Collections[i][1], Collections[i][2])])
    \o TopExtraErrors(data)

\* the typed graph that ArchitectureDSL.model_validate(data) returns
model_validate(data) ==
  [title            |-> IF "title" \in DOMAIN data THEN data.title ELSE <<>>,
   zones            |-> TypedCollection(data, "zones", ZoneModel),
   trust_boundaries |-> TypedCollection(data, "trust_boundaries", TrustBoundaryModel),
   groups           |-> TypedCollection(data, "groups", GroupModel),
   nodes            |-> TypedCollection(data, "nodes", NodeModel),
   flows            |-> TypedCollection(data, "flows", FlowModel),
   controls         |-> TypedCollection(data, "controls", ControlModel)]

\* what validate_dsl returns: model is <<m>> for a model m and <<>> for None
Outcome(model, errors) == [model |-> model, errors |-> errors]

\* lines 137-149, with the errors model_validate raised
Validation(data, errors) ==
  IF errors = <<>> THEN Outcome(<<model_validate(data)>>, <<>>)
  ELSE Outcome(<<>>, errors)

validate_dsl(data) == Validation(data, ValidationErrors(data))

\* ------------------------------------------------------------- text to DSL
MAX_REPAIR_ATTEMPTS == 2

\* `kw in t`
Contains(t, kw) == Occurrences(t, kw) # {}

\* lines 44-54: keyword, display name, color
zone_keywords ==
  << <<<<"i","n","t","e","r","n","e","t">>, <<"I","n","t","e","r","n","e","t">>, <<"#","f","f","f","2","c","c">>>>,
     <<<<"d","m","z">>, <<"D","M","Z">>, <<"#","f","f","e","6","c","c">>>>,
     <<<<"c","l","o","u","d">>, <<"C","l","o","u","d">>, <<"#","d","a","e","8","f","c">>>>,
     <<<<"t","e","n","a","n","t">>, <<"T","e","n","a","n","t">>, <<"#","e","1","d","5","e","7">>>>,
     <<<<"o","n","-","p","r","e","m">>, <<"O","n","-","P","r","e","m","i","s","e","s">>, <<"#","d","5","e","8","d","4">>>>,
     <<<<"i","n","t","e","r","n","a","l">>, <<"I","n","t","e","r","n","a","l">>, <<"#","d","5","e","8","d","4">>>>,
     <<<<"d","a","t","a">>, <<"D","a","t","a"," ","L","a","y","e","r">>, <<"#","f","8","c","e","c","c">>>>,
     <<<<"i","d","e","n","t","i","t","y">>, <<"I","d","e","n","t","i","t","y">>, <<"#","e","1","d","5","e","7">>>>,
     <<<<"v","e","n","d","o","r">>, <<"V","e","n","d","o","r"," ","/"," ","E","x","t","e","r","n","a","l">>, <<"#","f","5","f","5","f","5">>>> >>

\* lines 55-64: the zones the text names, or the three default zones
StubZones(t) ==
  LET named == SelectSeq([i \in DOMAIN zone_keywords |-> i],
                         LAMBDA i : \/ Contains(t, zone_keywords[i][1])
                                    \/ Contains(t, LowerStr(zone_keywords[i][2])))
  IN  IF named # <<>>
        THEN [k \in DOMAIN named |->
               [id |-> <<"z">> \o ToStr(named[k] - 1), name |-> zone_keywords[named[k]][2],
                order |-> named[k] - 1, color |-> zone_keywords[named[k]][3]]]
        ELSE << [id |-> <<"z","0">>, name |-> <<"E","x","t","e","r","n","a","l">>, order |-> 0, color |-> <<"#","f","f","f","2","c","c">>],
                [id |-> <<"z","1">>, name |-> <<"P","e","r","i","m","e","t","e","r">>, order |-> 1, color |-> <<"#","f","f","e","6","c","c">>],
                [id |-> <<"z","2">>, name |-> <<"I","n","t","e","r","n","a","l">>, order |-> 2, color |-> <<"#","d","5","e","8","d","4">>] >>

\* lines 66-73
StubBoundaries(zone_ids) ==
  [i \in 1..(Len(zone_ids) - 1) |->
    [id |-> <<"t","b">> \o ToStr(i), label |-> <<"T","B">> \o ToStr(i),
     between_zones |-> <<zone_ids[i], zone_ids[i + 1]>>]]

\* lines 75-112: the keywords of each node, its label, the zone it goes to
\* (1: the second zone if there is one, 0: the first, -1: the last) and its type
node_keywords ==
  << [kws |-> {<<"a","p","i">>, <<"g","a","t","e","w","a","y">>}, label |-> <<"A","P","I"," ","G","a","t","e","w","a","y">>, zone |-> 1, type |-> "api"],
     [kws |-> {<<"w","a","f">>, <<"f","i","r","e","w","a","l","l">>}, label |-> <<"W","A","F"," ","/"," ","F","i","r","e","w","a","l","l">>, zone |-> 0,
      type |-> "security_control"],
     [kws |-> {<<"a","p","p">>, <<"a","p","p","l","i","c","a","t","i","o","n">>, <<"s","e","r","v","i","c","e">>}, label |-> <<"A","p","p","l","i","c","a","t","i","o","n"," ","S","e","r","v","i","c","e">>,
      zone |-> -1, type |-> "service"],
     [kws |-> {<<"d","a","t","a","b","a","s","e">>, <<"d","b">>, <<"s","t","o","r","e">>}, label |-> <<"D","a","t","a","b","a","s","e">>, zone |-> -1,
      type |-> "data_store"],
     [kws |-> {<<"i","d","e","n","t","i","t","y">>, <<"i","d","p">>, <<"o","a","u","t","h">>}, label |-> <<"I","d","e","n","t","i","t","y"," ","P","r","o","v","i","d","e","r">>, zone |-> 1,
      type |-> "identity"],
     [kws |-> {<<"u","s","e","r">>, <<"c","l","i","e","n","t">>}, label |-> <<"U","s","e","r"," ","/"," ","C","l","i","e","n","t">>, zone |-> 0,
      type |-> "external"] >>

\* lines 114-119
default_nodes ==
  << [label |-> <<"C","l","i","e","n","t">>, zone |-> 0, type |-> "external"],
     [label |-> <<"W","e","b"," ","A","p","p">>, zone |-> -1, type |-> "service"],
     [label |-> <<"D","a","t","a","b","a","s","e">>, zone |-> -1, type |-> "data_store"] >>

\* zone_ids[min(1, len(zone_ids) - 1)], zone_ids[0], zone_ids[-1]
StubZoneOf(zone_ids, which) ==
  IF which = 1 THEN zone_ids[Min(1, Len(zone_ids) - 1) + 1]
  ELSE IF which = 0 THEN zone_ids[1]
  ELSE zone_ids[Len(zone_ids)]

\* lines 75-120: the nodes the text names, or the three default nodes
StubNodes(t, zone_ids) ==
  LET named  == SelectSeq(node_keywords, LAMBDA n : \E kw \in n.kws : Contains(t, kw))
      chosen == IF named # <<>> THEN [k \in DOMAIN named |->
                                       [label |-> named[k].label, zone |-> named[k].zone,
                                        type |-> named[k].type]]
                ELSE default_nodes
  IN  [k \in DOMAIN chosen |->
        [id |-> <<"n">> \o ToStr(k - 1), label |-> chosen[k].label,
         zone |-> StubZoneOf(zone_ids, chosen[k].zone), type |-> chosen[k].type,
         tags |-> <<>>]]

\* lines 122-133
StubFlows(node_ids) ==
  (IF Len(node_ids) >= 2
     THEN << [id |-> <<"f","0">>, source |-> node_ids[1], target |-> node_ids[2],
              flow_type |-> "api", protocol |-> <<"H","T","T","P","S">>, auth |-> <<"O","A","u","t","h","2">>,
              data_class |-> <<"P","I","I">>, label |-> <<>>] >>
     ELSE <<>>)
  \o (IF Len(node_ids) >= 3
        THEN << [id |-> <<"f","1">>, source |-> node_ids[2], target |-> node_ids[3],
                 flow_type |-> "data", protocol |-> <<"T","L","S">>, auth |-> <<"m","T","L","S">>,
                 data_class |-> <<"C","o","n","f","i","d","e","n","t","i","a","l">>, label |-> <<>>] >>
        ELSE <<>>)

\* lines 135-139
StubControls(t, node_ids) ==
  IF Contains(t, <<"e","n","c","r","y","p","t">>) \/ Contains(t, <<"t","l","s">>)
    THEN << [id |-> <<"c","0">>, scope |-> SubSeq(node_ids, 1, Min(2, Len(node_ids))),
             control_type |-> <<"E","n","c","r","y","p","t","i","o","n"," ","(","T","L","S",")">>] >>
    ELSE <<>>

\* lines 141-149, with the zones and the nodes
StubDict(t, zones, nodes) ==
  [title            |-> <<"S","e","c","u","r","i","t","y"," ","R","e","f","e","r","e","n","c","e"," ","A","r","c","h","i","t","e","c","t","u","r","e">>,
   zones            |-> zones,
   trust_boundaries |-> StubBoundaries(Ids(zones)),
   groups           |-> <<>>,
   nodes            |-> nodes,
   flows            |-> StubFlows(Ids(nodes)),
   controls         |-> StubControls(t, Ids(nodes))]

StubWithZones(t, zones) == StubDict(t, zones, StubNodes(t, Ids(zones)))

_stub_dsl_from_text(text) == StubWithZones(LowerStr(text), StubZones(LowerStr(text)))

\* What the LLM client returns: kind "none" for None or the empty string (no
\* key, no client library, a failed request), "text" for content json.loads
\* rejects, "json" for content it parses, into data.
Reply(kind, data) == [kind |-> kind, data |-> data]

NoReply == Reply("none", <<>>)

\* one entry of a list of messages that is no entry of a ValidationError
Message(msg) == SchemaError("", -1, "", msg)

\* The locals of text_to_dsl: dsl_dict, errors, validation_errors; model is
\* <<m>> or <<>> for None; asked counts the calls made to the LLM.
Locals(dsl_dict, errors, v, asked) ==
  [dsl_dict |-> dsl_dict, errors |-> errors, model |-> v.model,
   validation_errors |-> v.errors, asked |-> asked]

\* lines 260-279, with try_llm and the reply of _call_llm_for_dsl
Extracted(text, try_llm, r) ==
  IF try_llm /\ r.kind = "json"
    THEN Locals(r.data, <<>>, validate_dsl(r.data), 1)
  ELSE IF try_llm
    THEN Locals(_stub_dsl_from_text(text),
                (IF r.kind = "text" THEN <<Message("LLM returned invalid JSON")>> ELSE <<>>)
                  \o <<Message("LLM unavailable or returned invalid response; used stub generator.")>>,
                validate_dsl(_stub_dsl_from_text(text)), 1)
  ELSE Locals(_stub_dsl_from_text(text), <<>>, validate_dsl(_stub_dsl_from_text(text)), 0)

\* a variant of loop_continues that allows one attempt more
one_more_attempt(l, try_llm, attempt) ==
  l.model = <<>> /\ l.validation_errors # <<>> /\ try_llm /\ attempt <= MAX_REPAIR_ATTEMPTS

\* line 281: the condition of the repair loop
loop_continues(l, try_llm, attempt) ==
  l.model = <<>> /\ l.validation_errors # <<>> /\ try_llm /\ attempt < MAX_REPAIR_ATTEMPTS

\* lines 282-289: the body of the repair loop, with the reply of
\* _repair_dsl_with_llm
Repaired(l, r) ==
  IF r.kind = "json"
    THEN Locals(r.data, l.errors, validate_dsl(r.data), l.asked + 1)
  ELSE IF r.kind = "text"
    THEN [l EXCEPT !.validation_errors = <<Message("Repair produced invalid JSON")>>,
                   !.asked = l.asked + 1]
  ELSE [l EXCEPT !.asked = l.asked + 1]

\* lines 280-290: the repair loop from its attempt-th turn on; each turn reads
\* the next reply of the LLM
RECURSIVE RepairLoop(_, _, _, _)
RepairLoop(l, try_llm, replies, attempt) ==
  IF loop_continues(l, try_llm, attempt)
    THEN RepairLoop(Repaired(l, replies[l.asked + 1]), try_llm, replies, attempt + 1)
    ELSE l

\* lines 292-295: the payload and the errors text_to_dsl returns;
\* model.model_dump(mode="json") is the typed graph as a dict
Returned(l) ==
  IF l.model = <<>>
    THEN [dsl_dict |-> l.dsl_dict, errors |-> l.validation_errors, asked |-> l.asked]
    ELSE [dsl_dict |-> l.model[1], errors |-> <<>>, asked |-> l.asked]

\* text_to_dsl, with whether a key is configured and the replies of the LLM to
\* the calls made: use_llm is "true", "false" or "none"
text_to_dsl(text, use_llm, has_key, replies) ==
  LET try_llm == IF use_llm = "none" THEN has_key ELSE use_llm = "true"
  IN  Returned(RepairLoop(Extracted(text, try_llm, replies[1]), try_llm, replies, 0))

\* ------------------------------------------------------------ input pools
Zone(id, name, order, color) == [id |-> id, name |-> name, order |-> order, color |-> color]
\* a node that carries no type reads as an "app", a flow that carries no flow_type
\* as "generic", and one that carries no auth or data_class as the empty string
Node(id, label, zone) == [id |-> id, label |-> label, zone |-> zone, type |-> "app"]
Flow(id, source, target, protocol, label) ==
  [id |-> id, source |-> source, target |-> target, flow_type |-> "generic",
   protocol |-> protocol, auth |-> <<>>, data_class |-> <<>>, label |-> label]
Tb(id, label, between) == [id |-> id, label |-> label, between_zones |-> between]

\* raw zone ids that differ in case and spacing, meet in the alias table, look like
\* a collision suffix, and look like a synthesized id
ZonePool ==
  { Zone(<<"D","M","Z"," ","Z","o","n","e">>, <<"Z">>, 0, <<>>),
    Zone(<<"d","m","z">>, <<"Z">>, 0, <<>>),
    Zone(<<"d","m","z","_","1">>, <<"Z">>, 1, <<>>),
    Zone(<<"z","o","n","e","_","1">>, <<"Z">>, 5, <<>>) }

NodePool ==
  { Node(<<"n","0">>, <<"N">>, <<"D","M","Z"," ","Z","o","n","e">>),
    Node(<<"n","o","d","e","_","1">>, <<"N">>, <<"d","m","z">>),
    Node(<<"n","0">>, <<"N">>, <<"n","o","w","h","e","r","e">>) }

FlowPool ==
  { Flow(<<"f","0">>, <<"n","0">>, <<"n","o","d","e","_","1">>, <<>>, <<>>),
    Flow(<<"f","l","o","w","_","1">>, <<"n","0">>, <<"g","h","o","s","t">>, <<"H","T","T","P","S">>, <<>>) }

TbPool ==
  { Tb(<<"t","b","_","1">>, <<"T","B","1">>, <<<<"D","M","Z"," ","Z","o","n","e">>, <<"d","m","z">>>>) }

Size(g) == Len(g.zones) + Len(g.nodes) + Len(g.flows) + Len(g.trust_boundaries)

\* the lengths of the four collections of a payload of at most n entities
Shapes(n) ==
  { s \in (0..MaxZones) \X (0..MaxNodes) \X (0..MaxFlows) \X (0..MaxTbs) :
      s[1] + s[2] + s[3] + s[4] <= n }

\* every payload over the pools with at most n entities in all
Payloads(n) ==
  UNION { { Graph(zs, ns, fs, tbs) :
              zs \in [1..s[1] -> ZonePool], ns \in [1..s[2] -> NodePool],
              fs \in [1..s[3] -> FlowPool], tbs \in [1..s[4] -> TbPool] } :
          s \in Shapes(n) }

\* text a user may put in names, labels and colors: plain, the start of a
\* declaration, and a whole declaration among the characters the serializer escapes
TextPool ==
  { <<"Z">>, <<"<","?","x","m","l">>,
    <<"?", ">", "<", "?", "x", "m", "l", " ", "a", "=", "\"", "1", "\"", "?", ">", "\n", "&", "<">> }

\* one zone, one node in it, one flow and one boundary that are rendered, each
\* user text drawn from TextPool
TextPayloads ==
  { Graph(<<Zone(<<"d","m","z">>, name, 0, color)>>, <<Node(<<"n","0">>, nlabel, <<"d","m","z">>)>>,
          <<Flow(<<"f","0">>, <<"n","0">>, <<"n","0">>, <<>>, flabel)>>, <<Tb(<<"t","b","_","1">>, tlabel, <<<<"d","m","z">>, <<"d","m","z">>>>)>>) :
      name \in TextPool, color \in TextPool, nlabel \in TextPool,
      flabel \in TextPool, tlabel \in TextPool }

\* the thresholds a caller passes: every combination up to MaxMin with expansion,
\* and the defaults without
ParamSets ==
  { Params(mz, mn, mf, MIN_NODES_HARD, TRUE) :
      mz \in 0..MaxMin, mn \in 0..MaxMin, mf \in 0..MaxMin }
    \cup { Params(MIN_ZONES, MIN_NODES, MIN_FLOWS, MIN_NODES_HARD, FALSE) }

\* ---------------------------------------------------------- state machine
DefaultParams == Params(MIN_ZONES, MIN_NODES, MIN_FLOWS, MIN_NODES_HARD, TRUE)

\* one finished call: its argument as passed and as the call left it, and what it returned
Call(op, arg, arg_after, params, status, graph, errors, cells, text) ==
  [op |-> op, arg |-> arg, arg_after |-> arg_after, params |-> params, status |-> status,
   graph |-> graph, errors |-> errors, cells |-> cells, text |-> text]

Init ==
  /\ payload \in Payloads(MaxEntities)
  /\ prepared = EmptyGraph
  /\ shared = 0
  /\ calls = <<>>

\* the payloads of at most MaxDrawn entities
InitDraw ==
  /\ payload \in Payloads(MaxDrawn)
  /\ prepared = EmptyGraph
  /\ shared = 0
  /\ calls = <<>>

InitXml ==
  /\ payload \in TextPayloads
  /\ prepared = EmptyGraph
  /\ shared = 0
  /\ calls = <<>>

\* the caller passes its payload to validate_and_prepare_dsl
Validate ==
  /\ calls = <<>>
  /\ \E p \in ParamSets : \E r \in {Prepare(payload, p)} :
       \E after \in {[payload EXCEPT !.nodes = r.arg_nodes]} :
         /\ payload' = after
         /\ prepared' = r.graph
         /\ shared' = r.shared
         /\ calls' = Append(calls, Call("validate", payload, after, p,
                                        r.status, r.graph, r.errors, <<>>, <<>>))

\* the caller passes the graph it got back to validate_and_prepare_dsl again, with
\* the same parameters; the leading `shared` nodes of that graph are the node
\* objects of the payload, so what the call assigns to them shows in both
Renormalize ==
  /\ Len(calls) = 1
  /\ calls[1].op = "validate"
  /\ calls[1].status = "ok"
  /\ \E r \in {Prepare(prepared, calls[1].params)} :
       \E after \in {[prepared EXCEPT !.nodes = r.arg_nodes]} :
         /\ prepared' = after
         /\ payload' = IF shared = 0 THEN payload
                      ELSE [payload EXCEPT !.nodes = SubSeq(r.arg_nodes, 1, shared)]
         /\ shared' = shared
         /\ calls' = Append(calls, Call("renormalize", prepared, after, calls[1].params,
                                        r.status, r.graph, r.errors, <<>>, <<>>))

\* the caller passes its payload to dsl_to_drawio
Render ==
  /\ Len(calls) < MaxCalls
  /\ \A i \in DOMAIN calls : calls[i].op = "render"
  /\ \E r \in {dsl_to_drawio(payload)} :
       \E after \in {[payload EXCEPT !.nodes = r.arg_nodes]} :
         /\ payload' = after
         /\ calls' = Append(calls, Call("render", payload, after, DefaultParams,
                                        r.status, r.graph, r.errors, r.cells, r.text))
         /\ UNCHANGED <<prepared, shared>>

Next == Validate \/ Renormalize \/ Render

Spec == Init /\ [][Next]_vars

\* dsl_to_drawio alone, called up to MaxCalls times
SpecDraw == InitDraw /\ [][Render]_vars

SpecXml == InitXml /\ [][Render]_vars

\* ------------------------------------------------------------ raw payloads
\* entities as a client may send them: well-formed, with a value the schema
\* forbids, with a key the schema does not define, with a required key missing
RawZone == [id |-> <<"z","0">>, name |-> <<"Z">>, order |-> 0]
RawNode == [id |-> <<"n","0">>, label |-> <<"N">>, zone |-> <<"z","0">>]
RawFlow == [id |-> <<"f","0">>, source |-> <<"n","0">>, target |-> <<"n","0">>]
RawTb == [id |-> <<"t","b","1">>, between_zones |-> <<<<"z","0">>, <<"z","0">>>>]
RawGroup == [id |-> <<"g","0">>, label |-> <<"G">>, zone |-> <<"z","0">>]
RawControl == [id |-> <<"c","0">>, control_type |-> <<"W","A","F">>]

RawPools ==
  [zones |-> { RawZone, [RawZone EXCEPT !.order = -1], With(RawZone, "bogus", 1),
               Without(RawZone, "name") },
   trust_boundaries |-> { RawTb, With(RawTb, "bogus", 1) },
   groups |-> { RawGroup, With(RawGroup, "bogus", 1) },
   nodes |-> { RawNode, With(RawNode, "type", "api"), With(RawNode, "type", "gateway"),
               With(RawNode, "bogus", 1) },
   flows |-> { RawFlow, With(RawFlow, "flow_type", "log"), With(RawFlow, "flow_type", "rpc"),
               With(RawFlow, "bogus", 1) },
   controls |-> { RawControl, With(RawControl, "bogus", 1) }]

CollectionNames == {Collections[i][1] : i \in DOMAIN Collections}

\* the lengths of the six collections of a payload of at most n entities
RawShapes(n) ==
  { s \in [CollectionNames -> 0..n] :
      s.zones + s.trust_boundaries + s.groups + s.nodes + s.flows + s.controls <= n }

\* every payload over the pools with at most n entities in all; its empty
\* collections are all sent as [] or all left out, and it may carry a key that
\* is no field of the schema
RawPayloads(n) ==
  UNION { { LET lists == [zones |-> zs, trust_boundaries |-> tbs, groups |-> gs,
                          nodes |-> ns, flows |-> fs, controls |-> cs]
                kept  == IF omit
                           THEN [c \in {c \in CollectionNames : lists[c] # <<>>} |-> lists[c]]
                           ELSE lists
            IN  IF extra THEN With(kept, "bogus", 1) ELSE kept :
              zs \in [1..s.zones -> RawPools.zones],
              tbs \in [1..s.trust_boundaries -> RawPools.trust_boundaries],
              gs \in [1..s.groups -> RawPools.groups],
              ns \in [1..s.nodes -> RawPools.nodes],
              fs \in [1..s.flows -> RawPools.flows],
              cs \in [1..s.controls -> RawPools.controls],
              omit \in BOOLEAN, extra \in BOOLEAN } :
          s \in RawShapes(n) }

\* one finished call of validate_dsl
SchemaCall(arg, model, errors) ==
  [op |-> "validate_dsl", arg |-> arg, model |-> model, errors |-> errors]

InitSchema ==
  /\ payload \in RawPayloads(MaxRawEntities)
  /\ prepared = EmptyGraph
  /\ shared = 0
  /\ calls = <<>>

\* the caller passes its payload to validate_dsl
ValidateDsl ==
  /\ calls = <<>>
  /\ \E r \in {validate_dsl(payload)} :
       calls' = Append(calls, SchemaCall(payload, r.model, r.errors))
  /\ UNCHANGED <<payload, prepared, shared>>

\* validate_dsl alone
SpecSchema == InitSchema /\ [][ValidateDsl]_vars

\* ------------------------------------------------------------ grid payloads
\* two zones z0 (order 0) and z1 (order 1), one trust boundary between them, k0
\* nodes in z0 followed by k1 nodes in z1, and one flow from the first node to
\* the second; the zones are listed in either order and the node ids are
\* prefix0, prefix1, ...
GridGraph(k0, k1, reversed, prefix) ==
  Graph(IF reversed THEN <<Zone(<<"z","1">>, <<"Z","o","n","e","1">>, 1, <<>>), Zone(<<"z","0">>, <<"Z","o","n","e","0">>, 0, <<>>)>>
        ELSE <<Zone(<<"z","0">>, <<"Z","o","n","e","0">>, 0, <<>>), Zone(<<"z","1">>, <<"Z","o","n","e","1">>, 1, <<>>)>>,
        [i \in 1..(k0 + k1) |->
          Node(prefix \o ToStr(i - 1), <<"N">>, IF i <= k0 THEN <<"z","0">> ELSE <<"z","1">>)],
        <<[Flow(<<"f","0">>, prefix \o <<"0">>, prefix \o <<"1">>, <<>>, <<>>) EXCEPT !.flow_type = "api"]>>,
        <<Tb(<<"t","b","1">>, <<"T","B","1">>, <<<<"z","0">>, <<"z","1">>>>)>>)

GridPayloads ==
  { GridGraph(k0, k1, reversed, prefix) :
      k0 \in 0..MaxGridNodes, k1 \in 0..MaxGridSecond,
      reversed \in BOOLEAN, prefix \in {<<"n">>, <<"n","o","d","e","_">>} }

InitGrid ==
  /\ payload \in {g \in GridPayloads : Len(g.nodes) <= MaxGridNodes}
  /\ prepared = EmptyGraph
  /\ shared = 0
  /\ calls = <<>>

\* dsl_to_drawio alone, on the grid payloads
SpecGrid == InitGrid /\ [][Render]_vars

\* --------------------------------------------------------------- endpoint
\* d.get(k, default)
Get(d, k, default) == IF k \in DOMAIN d THEN d[k] ELSE default

\* The graph the renderer reads from a payload dict whose entities all carry an
\* id: every other key is read with .get and a default.
AsGraph(d) ==
  Graph([i \in DOMAIN Get(d, "zones", <<>>) |->
          LET z == d.zones[i]
          IN  Zone(z.id, Get(z, "name", <<>>), Get(z, "order", 0), Get(z, "color", <<>>))],
        [i \in DOMAIN Get(d, "nodes", <<>>) |->
          LET n == d.nodes[i]
          IN  [id |-> n.id, label |-> Get(n, "label", n.id), zone |-> Get(n, "zone", <<>>),
               type |-> Get(n, "type", "app")]],
        [i \in DOMAIN Get(d, "flows", <<>>) |->
          LET f == d.flows[i]
          IN  [id |-> f.id, source |-> Get(f, "source", <<>>), target |-> Get(f, "target", <<>>),
               flow_type |-> Get(f, "flow_type", "generic"),
               protocol |-> Get(f, "protocol", <<>>), auth |-> Get(f, "auth", <<>>),
               data_class |-> Get(f, "data_class", <<>>), label |-> Get(f, "label", <<>>)]],
        [i \in DOMAIN Get(d, "trust_boundaries", <<>>) |->
          LET tb == d.trust_boundaries[i]
          IN  Tb(tb.id, Get(tb, "label", <<>>), Get(tb, "between_zones", <<>>))])

\* lines 64-75: the status of the response
ResponseStatus(r) ==
  IF r.status = "ok" THEN 200
  ELSE IF r.status = "ValueError" THEN 422
  ELSE 500

\* one finished request: what text_to_dsl returned, handed is <<d>> for the
\* payload d passed to dsl_to_drawio and <<>> when none was, replies are the
\* replies of the LLM that were read
ApiCall(req, replies, t, handed, status, text) ==
  [op |-> "generate", req |-> req, replies |-> SubSeq(replies, 1, t.asked),
   dsl_dict |-> t.dsl_dict, errors |-> t.errors, handed |-> handed,
   status |-> status, text |-> text]

\* lines 59-75, with what text_to_dsl returned
Responded(req, replies, t) ==
  IF DOMAIN t.dsl_dict = {}
    THEN ApiCall(req, replies, t, <<>>, 422, <<>>)
    ELSE LET r == dsl_to_drawio(AsGraph(t.dsl_dict))
         IN  ApiCall(req, replies, t, <<t.dsl_dict>>, ResponseStatus(r), r.text)

\* generate
generate(req, replies) ==
  Responded(req, replies, text_to_dsl(req.text, req.use_llm, req.has_key, replies))

\* descriptions a user may send
RequestTexts ==
  { <<>>,
    <<"U","s","e","r","s"," ","r","e","a","c","h"," ","a","n"," ","A","P","I"," ","g","a","t","e","w","a","y"," ","i","n"," ","t","h","e"," ","D","M","Z"," ","b","e","h","i","n","d"," ","a"," ","W","A","F",";"," ","T","L","S"," ","e","v","e","r","y","w","h","e","r","e",".">>,
    <<"C","l","o","u","d"," ","t","e","n","a","n","t"," ","w","i","t","h"," ","a"," ","d","a","t","a","b","a","s","e">> }

\* what the LLM may answer: nothing, text that is no JSON, a graph the schema
\* accepts, and graphs it rejects for a negative order, an unknown node type and
\* an unknown top-level key
ReplyPool ==
  { NoReply,
    Reply("text", <<>>),
    Reply("json", [zones |-> <<RawZone>>, nodes |-> <<RawNode>>]),
    Reply("json", [zones |-> <<[RawZone EXCEPT !.order = -1]>>, nodes |-> <<RawNode>>]),
    Reply("json", [zones |-> <<RawZone>>, nodes |-> <<With(RawNode, "type", "gateway")>>]),
    Reply("json", With([zones |-> <<RawZone>>, nodes |-> <<RawNode>>], "bogus", 1)) }

\* without a key the LLM client returns None before any request
Replies(has_key) == IF has_key THEN ReplyPool ELSE {NoReply}

InitApi ==
  /\ payload \in [text : RequestTexts, use_llm : {"true", "false", "none"}, has_key : BOOLEAN]
  /\ prepared = EmptyGraph
  /\ shared = 0
  /\ calls = <<>>

\* a client posts its request to /api/generate; the LLM has one reply more in
\* store than text_to_dsl may read, and a reply that is never read is NoReply
Generate ==
  /\ calls = <<>>
  /\ \E replies \in [1..(MAX_REPAIR_ATTEMPTS + 2) -> Replies(payload.has_key)] :
       /\ \E t \in {text_to_dsl(payload.text, payload.use_llm, payload.has_key, replies)} :
            \A k \in DOMAIN replies : k > t.asked => replies[k] = NoReply
       /\ calls' = Append(calls, generate(payload, replies))
  /\ UNCHANGED <<payload, prepared, shared>>

\* the endpoint alone
SpecApi == InitApi /\ [][Generate]_vars

\* validate_and_prepare_dsl alone, called once on a payload of at most MaxDrawn
\* entities
SpecValidate == InitDraw /\ [][Validate]_vars

\* ------------------------------------------------------------- properties
RenderCalls == {i \in DOMAIN calls : calls[i].op = "render"}
ValidateCalls == {i \in DOMAIN calls : calls[i].op = "validate"}
Distinct(s) == \A i, j \in DOMAIN s : i # j => s[i] # s[j]
CellsOf(c, kind) == {c.cells[k] : k \in {k \in DOMAIN c.cells : c.cells[k].kind = kind}}
UserTexts(g) ==
  {g.zones[i].name : i \in DOMAIN g.zones} \cup {g.zones[i].color : i \in DOMAIN g.zones}
    \cup {g.nodes[i].label : i \in DOMAIN g.nodes}
    \cup {g.flows[i].label : i \in DOMAIN g.flows}
    \cup {g.trust_boundaries[i].label : i \in DOMAIN g.trust_boundaries}

\* C1: whatever text the user puts in names, labels and colors, a document that
\* dsl_to_drawio returns holds "<?xml" at most once, and then at offset 0, and no
\* call ends in a failed assertion of _serialize_xml_safe.
C1_OneDeclarationAtStart ==
  \A i \in RenderCalls :
    /\ calls[i].status # "AssertionError"
    /\ calls[i].status = "ok" =>
         LET occ == Occurrences(calls[i].text, XmlDecl)
         IN  /\ Cardinality(occ) <= 1
             /\ \A k \in occ : k = 1

\* a document was returned for a payload whose user text holds "<?xml", and the
\* document starts with the declaration
C1_Witness ==
  \E i \in RenderCalls :
    /\ calls[i].status = "ok"
    /\ \E t \in UserTexts(calls[i].arg) : Occurrences(t, XmlDecl) # {}
    /\ StartsAt(calls[i].text, 1, XmlDecl)

\* C2: every node cell of a returned document has as parent the id of a zone
\* container cell of that document, emitted for the zone the node is in.
C2_NodeParentIsItsZoneCell ==
  \A i \in RenderCalls :
    calls[i].status = "ok" =>
      \A c \in CellsOf(calls[i], "node") :
        /\ \E k \in DOMAIN calls[i].graph.nodes :
             /\ calls[i].graph.nodes[k].id = c.ent
             /\ calls[i].graph.nodes[k].zone = c.zone
        /\ \E z \in CellsOf(calls[i], "zone") : z.id = c.parent /\ z.ent = c.zone

\* a returned document holds the cell of a node of the payload, in a zone
\* container that is not the first one
C2_Witness ==
  \E i \in RenderCalls :
    /\ calls[i].status = "ok"
    /\ \E c \in CellsOf(calls[i], "node") :
         /\ \E k \in DOMAIN calls[i].arg.nodes : calls[i].arg.nodes[k].id = c.ent
         /\ c.parent # _next_id(<<"zone-">>, 1)
         /\ \E z \in CellsOf(calls[i], "zone") : z.id = c.parent

\* C3 as stated: with expansion on, the graph validate_and_prepare_dsl returns has
\* at least min_zones zones, min_nodes nodes and min_flows flows, and the call
\* does not raise, for every input and every thresholds.
C3_DensityGuaranteed ==
  \A i \in ValidateCalls :
    calls[i].params.expand_to_meet_density =>
      /\ calls[i].status # "raised"
      /\ calls[i].status = "ok" =>
           /\ Len(calls[i].graph.zones) >= calls[i].params.min_zones
           /\ Len(calls[i].graph.nodes) >= calls[i].params.min_nodes
           /\ Len(calls[i].graph.flows) >= calls[i].params.min_flows

\* C4 as stated: the zone ids of the graph validate_and_prepare_dsl returns are
\* pairwise distinct.
C4_ZoneIdsDistinct ==
  \A i \in ValidateCalls :
    calls[i].status = "ok" => Distinct(Ids(calls[i].graph.zones))

\* the zones, nodes, flows or boundaries that expansion appended to a collection
\* of the input have ids no other member of the collection has
FreshTail(before, after) ==
  \A k \in (Len(before) + 1)..Len(after) :
    \A j \in DOMAIN after : j # k => after[j].id # after[k].id

\* C5 as stated: an id that expansion synthesizes for a zone, node, flow or trust
\* boundary is the id of no other member of the same collection.
C5_SynthesizedIdsFresh ==
  \A i \in ValidateCalls :
    calls[i].status = "ok" =>
      /\ FreshTail(calls[i].arg.zones, calls[i].graph.zones)
      /\ FreshTail(calls[i].arg.nodes, calls[i].graph.nodes)
      /\ FreshTail(calls[i].arg.flows, calls[i].graph.flows)
      /\ FreshTail(calls[i].arg.trust_boundaries, calls[i].graph.trust_boundaries)

\* a node of g names a zone that is neither the id of a zone of g as given nor
\* the id of one after normalization
HasUnresolvedZone(g) ==
  LET nz == NormalizeZones(SortByOrder(g.zones), [x \in {} |-> 0], NoMap, <<>>)
      known == Range(Ids(g.zones)) \cup Range(Ids(nz.zones))
  IN  \E k \in DOMAIN g.nodes : g.nodes[k].zone \notin known

\* C6 as stated: for a payload with a node whose zone resolves to no declared
\* zone, the zones list being empty included, validate_and_prepare_dsl returns
\* no graph and a non-empty error list, and dsl_to_drawio raises ValueError.
C6_UnresolvedZoneIsFatal ==
  \A i \in DOMAIN calls :
    (calls[i].op \in {"validate", "render"} /\ HasUnresolvedZone(calls[i].arg)) =>
      /\ calls[i].status = (IF calls[i].op = "render" THEN "ValueError" ELSE "errors")
      /\ calls[i].errors # <<>>

IsDangling(g, f) ==
  \/ f.source \notin Range(Ids(g.nodes))
  \/ f.target \notin Range(Ids(g.nodes))

C8_NormalizationIdempotent ==
  \A i \in DOMAIN calls :
    calls[i].op = "renormalize" =>
      /\ calls[i].status = "ok"
      /\ Ids(calls[i].graph.zones) = Ids(calls[i].arg.zones)
      /\ [k \in DOMAIN calls[i].graph.nodes |-> calls[i].graph.nodes[k].zone]
           = [k \in DOMAIN calls[i].arg.nodes |-> calls[i].arg.nodes[k].zone]
      /\ Len(calls[i].graph.flows) = Len(calls[i].arg.flows)
      /\ Len(calls[i].graph.trust_boundaries) = Len(calls[i].arg.trust_boundaries)

\* C9 as stated: two successive calls of dsl_to_drawio with the same payload
\* object end the same way and return the same document.
C9_RenderDeterministic ==
  \A i, j \in RenderCalls :
    /\ calls[i].status = calls[j].status
    /\ calls[i].text = calls[j].text

\* C10 as stated: validate_and_prepare_dsl and dsl_to_drawio leave the object the
\* caller passed as it was.
C10_InputUnchanged ==
  \A i \in DOMAIN calls : calls[i].arg_after = calls[i].arg


SchemaCalls == {i \in DOMAIN calls : calls[i].op = "validate_dsl"}

\* the members of a payload's collections, each with the model of its collection
Members(data) ==
  UNION { {<<Collections[c][2], data[Collections[c][1]][k]>> :
             k \in DOMAIN data[Collections[c][1]]} :
          c \in {c \in DOMAIN Collections : Collections[c][1] \in DOMAIN data} }

\* the payload carries a key the schema does not define, at the top level or in
\* a member of a collection
HasUnknownField(data) ==
  \/ DOMAIN data \ Range(ArchitectureDSL.fields) # {}
  \/ \E me \in Members(data) : DOMAIN me[2] \ Range(me[1].fields) # {}

Rejected(c) == c.model = <<>> /\ c.errors # <<>>

\* C11 as stated: validate_dsl returns no graph and at least one error for
\* every payload that carries a field the schema does not define, at the top
\* level or inside any zone, trust boundary, group, node, flow or control.
C11_UnknownFieldsRejected ==
  \A i \in SchemaCalls : HasUnknownField(calls[i].arg) => Rejected(calls[i])

\* the payload has a zone of negative order, a node whose type is no node type,
\* or a flow whose flow_type is no flow type
HasForbiddenValue(data) ==
  \E me \in Members(data) :
    \/ me[1].name = "Zone" /\ "order" \in DOMAIN me[2] /\ me[2].order < 0
    \/ me[1].name = "Node" /\ "type" \in DOMAIN me[2] /\ me[2].type \notin NodeType
    \/ me[1].name = "Flow" /\ "flow_type" \in DOMAIN me[2] /\ me[2].flow_type \notin FlowType

\* C12: validate_dsl returns either a typed graph and no error, or no graph and
\* at least one error; it returns the second for every payload with a zone of
\* order < 0, a node type outside the eight node types, or a flow_type outside
\* the six flow types.
C12_TwoOutcomes ==
  \A i \in SchemaCalls :
    /\ \/ Len(calls[i].model) = 1 /\ calls[i].errors = <<>>
       \/ Rejected(calls[i])
    /\ HasForbiddenValue(calls[i].arg) => Rejected(calls[i])

\* a payload whose only fault is a forbidden value was rejected, with one error
\* that names the field
C12_Witness ==
  \E i \in SchemaCalls :
    /\ HasForbiddenValue(calls[i].arg)
    /\ ~HasUnknownField(calls[i].arg)
    /\ Rejected(calls[i])
    /\ Len(calls[i].errors) = 1
    /\ calls[i].errors[1].field \in {"order", "type", "flow_type"}

\* the input of the two-zone scenario: zones z0 (order 0) and z1 (order 1), one
\* trust boundary between them, two nodes, one in each zone, and one flow
\* between the two nodes
IsTwoZoneInput(g) ==
  /\ {<<g.zones[i].id, g.zones[i].order>> : i \in DOMAIN g.zones} = {<<<<"z","0">>, 0>>, <<<<"z","1">>, 1>>}
  /\ Len(g.zones) = 2
  /\ Len(g.trust_boundaries) = 1
  /\ Range(g.trust_boundaries[1].between_zones) = {<<"z","0">>, <<"z","1">>}
  /\ Len(g.nodes) = 2
  /\ {g.nodes[i].zone : i \in DOMAIN g.nodes} = {<<"z","0">>, <<"z","1">>}
  /\ Len(g.flows) = 1
  /\ {g.flows[1].source, g.flows[1].target} = {g.nodes[i].id : i \in DOMAIN g.nodes}

\* every node cell of the call's document is a child of a container emitted for
\* the zone its node is in
NodesInOwnZone(c) ==
  \A n \in CellsOf(c, "node") :
    /\ \E k \in DOMAIN c.graph.nodes :
         c.graph.nodes[k].id = n.ent /\ c.graph.nodes[k].zone = n.zone
    /\ \E z \in CellsOf(c, "zone") : z.id = n.parent /\ z.ent = n.zone

\* the document of the call has zs zone containers, ns node cells, each in its
\* own zone's container, es connectors and at least one trust-boundary line
HasCounts(c, zs, ns, es) ==
  /\ c.status = "ok"
  /\ Cardinality(CellsOf(c, "zone")) = zs
  /\ Cardinality(CellsOf(c, "node")) = ns
  /\ NodesInOwnZone(c)
  /\ Cardinality(CellsOf(c, "edge")) = es
  /\ Cardinality(CellsOf(c, "tb")) >= 1

\* C13 as stated: the document rendered from the two-zone input has exactly 2
\* zone containers, exactly 2 node cells, each in its own zone's container,
\* exactly 1 connector and at least one trust-boundary line.
C13_TwoZoneInputDrawnAsGiven ==
  \A i \in RenderCalls : IsTwoZoneInput(calls[i].arg) => HasCounts(calls[i], 2, 2, 1)

\* C13 amended: the document rendered from the two-zone input has exactly
\* MIN_ZONES zone containers, one for z0 and one for z1 among them, exactly
\* MIN_NODES node cells, each in its own zone's container and one for each node
\* of the input among them, exactly MIN_FLOWS connectors and at least one
\* trust-boundary line.
C13_TwoZoneInputDrawnExpanded ==
  \A i \in RenderCalls :
    IsTwoZoneInput(calls[i].arg) =>
      /\ HasCounts(calls[i], MIN_ZONES, MIN_NODES, MIN_FLOWS)
      /\ \A zid \in {<<"z","0">>, <<"z","1">>} :
           Cardinality({z \in CellsOf(calls[i], "zone") : z.ent = zid}) = 1
      /\ \A k \in DOMAIN calls[i].arg.nodes :
           \E n \in CellsOf(calls[i], "node") :
             n.ent = calls[i].arg.nodes[k].id /\ n.zone = calls[i].arg.nodes[k].zone

\* the two-zone input was rendered: the document has the line of the boundary
\* between z0 and z1 and a connector between the cells of the two nodes
C13_Witness ==
  \E i \in RenderCalls :
    /\ IsTwoZoneInput(calls[i].arg)
    /\ calls[i].status = "ok"
    /\ \E t \in CellsOf(calls[i], "tb") : t.ent = <<"t","b","1">>
    /\ \E e \in CellsOf(calls[i], "edge") :
         /\ e.ent = <<"f","0">>
         /\ {e.source, e.target}
              = {n.id : n \in {n \in CellsOf(calls[i], "node") :
                                 \E k \in DOMAIN calls[i].arg.nodes :
                                   n.ent = calls[i].arg.nodes[k].id}}

\* C14: rendering the empty input {} ends without error or failed assertion;
\* the document is one mxfile element after at most one declaration, with at
\* least MIN_ZONES zone containers and at least MIN_NODES node cells.
C14_EmptyInputExpands ==
  \A i \in RenderCalls :
    calls[i].arg = EmptyGraph =>
      /\ calls[i].status = "ok"
      /\ Cardinality(CellsOf(calls[i], "zone")) >= MIN_ZONES
      /\ Cardinality(CellsOf(calls[i], "node")) >= MIN_NODES
      /\ Cardinality(Occurrences(calls[i].text, XmlDecl)) <= 1
      /\ Occurrences(calls[i].text, <<"<", "mxfile">>) = {Len(Declaration) + 1}
      /\ Occurrences(calls[i].text, <<"<", "/mxfile">>) = {Len(calls[i].text) - 2}

\* the empty input was rendered into a document whose zone containers and node
\* cells are all synthesized ones
C14_Witness ==
  \E i \in RenderCalls :
    /\ calls[i].arg = EmptyGraph
    /\ calls[i].status = "ok"
    /\ \E z \in CellsOf(calls[i], "zone") : z.ent = <<"z","o","n","e","_","0">>
    /\ \E n \in CellsOf(calls[i], "node") : n.ent = <<"n","o","d","e","_","2","4">>

\* C15 as stated: in every document dsl_to_drawio returns, every zone
\* container is the parent of at least one node cell.
C15_EveryZoneHasANode ==
  \A i \in RenderCalls :
    calls[i].status = "ok" =>
      \A z \in CellsOf(calls[i], "zone") :
        \E n \in CellsOf(calls[i], "node") : n.parent = z.id

VertexKinds == {"zone", "node", "tb", "tblbl", "legend"}

\* C17: in every document dsl_to_drawio returns, every vertex cell (zone
\* containers, node cells, trust-boundary lines, their labels, the legend) has
\* x >= 0 and y >= 0.
C17_NoNegativeCoordinates ==
  \A i \in RenderCalls :
    calls[i].status = "ok" =>
      \A k \in DOMAIN calls[i].cells :
        calls[i].cells[k].kind \in VertexKinds =>
          calls[i].cells[k].x >= 0 /\ calls[i].cells[k].y >= 0

\* a returned document holds a cell of each vertex kind, the label of a
\* boundary among them, 16 above its line
C17_Witness ==
  \E i \in RenderCalls :
    /\ calls[i].status = "ok"
    /\ \A kind \in VertexKinds : CellsOf(calls[i], kind) # {}
    /\ \E t \in CellsOf(calls[i], "tb") : \E l \in CellsOf(calls[i], "tblbl") :
         l.ent = t.ent /\ l.y = t.y - 16

\* C18: no call of dsl_to_drawio ends in a failed assertion, however many nodes
\* a zone holds: every node cell lies inside its container, x >= 0, y >= 0,
\* x + NODE_W <= the container's width and y + NODE_H <= the container's height
\* less the header.
C18_NodesInsideTheirZone ==
  \A i \in RenderCalls :
    /\ calls[i].status # "AssertionError"
    /\ calls[i].status = "ok" =>
         \A n \in CellsOf(calls[i], "node") : \A z \in CellsOf(calls[i], "zone") :
           z.id = n.parent =>
             /\ n.x >= 0 /\ n.y >= 0
             /\ n.x + NODE_W <= z.width
             /\ n.y + NODE_H <= z.height - ZONE_HEADER_HEIGHT

\* a returned document has a zone of at least three rows, with a node cell in
\* the last column of its last row
C18_Witness ==
  \E i \in RenderCalls :
    /\ calls[i].status = "ok"
    /\ \E n \in CellsOf(calls[i], "node") : \E z \in CellsOf(calls[i], "zone") :
         /\ z.id = n.parent
         /\ n.y >= PADDING + 2 * (NODE_H + GAP_Y)
         /\ n.y + NODE_H + PADDING = z.height - ZONE_HEADER_HEIGHT
         /\ n.x = PADDING + 5 * (NODE_W + GAP_X)

\* the cells of one kind in the order they were emitted
CellSeq(c, kind) == SelectSeq(c.cells, LAMBDA x : x.kind = kind)

\* the cells of c's document that are children of the cell p, in emission order
Children(c, p) == SelectSeq(c.cells, LAMBDA x : x.parent = p.id)

\* C19 as stated: the zone containers of a returned document are emitted in
\* ascending order and stacked without gap or overlap: the first has y = 0, each
\* later one has as y the sum of the heights of those emitted before it, and the
\* height of each is ZONE_HEADER_HEIGHT + PADDING + rows * (NODE_H + GAP_Y) with
\* rows = max(1, ceil(nodes of the zone / 6)).
C19_ZonesStacked ==
  \A i \in RenderCalls :
    calls[i].status = "ok" =>
      LET zc == CellSeq(calls[i], "zone")
          g  == calls[i].graph
      IN  /\ Ids(SortByOrder(g.zones)) = [k \in DOMAIN zc |-> zc[k].ent]
          /\ \A k \in DOMAIN zc :
               /\ zc[k].y = SumTo([j \in DOMAIN zc |-> zc[j].height], k - 1)
               /\ LET n == Cardinality({j \in DOMAIN g.nodes : g.nodes[j].zone = zc[k].ent})
                  IN  zc[k].height = ZONE_HEADER_HEIGHT + PADDING
                                       + Max(1, CeilDiv(n, 6)) * (NODE_H + GAP_Y)

\* two rectangles of the node size at (x1, y1) and (x2, y2) share a point
Overlap(a, b) ==
  /\ a.x < b.x + NODE_W /\ b.x < a.x + NODE_W
  /\ a.y < b.y + NODE_H /\ b.y < a.y + NODE_H

\* C20 as stated: in a returned document the i-th node cell of a zone container
\* (from 0, in emission order) is at x = PADDING + (i mod 6) * (NODE_W + GAP_X),
\* y = PADDING + (i div 6) * (NODE_H + GAP_Y), 6 being the global column count,
\* and no two node cells of one container overlap.
C20_RowMajorPlacement ==
  /\ cols_max = 6
  /\ \A i \in RenderCalls :
       calls[i].status = "ok" =>
         \A z \in CellsOf(calls[i], "zone") :
           LET ch == Children(calls[i], z)
           IN  /\ \A k \in DOMAIN ch :
                    /\ ch[k].x = PADDING + ((k - 1) % 6) * (NODE_W + GAP_X)
                    /\ ch[k].y = PADDING + ((k - 1) \div 6) * (NODE_H + GAP_Y)
               /\ \A k, l \in DOMAIN ch : k # l => ~Overlap(ch[k], ch[l])

GenerateCalls == {i \in DOMAIN calls : calls[i].op = "generate"}

PassesSchema(d) == validate_dsl(d).errors = <<>>

\* the LLM was asked and no reply it gave was a graph the schema accepts
LlmFailed(c) ==
  /\ c.replies # <<>>
  /\ \A k \in DOMAIN c.replies :
       c.replies[k].kind = "json" => ~PassesSchema(c.replies[k].data)

\* C16 as stated: whenever the LLM path fails, text_to_dsl returns the graph of
\* the deterministic stub; the payload it returns passes validate_dsl, and so
\* does every payload generate hands to dsl_to_drawio.
C16_FallbackIsSchemaValid ==
  \A i \in GenerateCalls :
    /\ PassesSchema(calls[i].dsl_dict)
    /\ \A k \in DOMAIN calls[i].handed : PassesSchema(calls[i].handed[k])
    /\ LlmFailed(calls[i]) =>
         calls[i].dsl_dict = model_validate(_stub_dsl_from_text(calls[i].req.text))

CellKinds == {"zone", "node", "tb", "tblbl", "edge", "legend"}

IdPrefix(kind) ==
  CASE kind = "zone"   -> <<"zone-">>
    [] kind = "node"   -> <<"node-">>
    [] kind = "tb"     -> <<"tb-">>
    [] kind = "tblbl"  -> <<"tblbl-">>
    [] kind = "edge"   -> <<"edge-">>
    [] kind = "legend" -> <<"legend-">>

CellIds(c) == [k \in DOMAIN c.cells |-> c.cells[k].id]

TriedLlm(c) == IF c.req.use_llm = "none" THEN c.req.has_key ELSE c.req.use_llm = "true"

\* the calls text_to_dsl made to _repair_dsl_with_llm: every reply read but the
\* first, which _call_llm_for_dsl gave
RepairCalls(c) == Len(c.replies) - (IF TriedLlm(c) THEN 1 ELSE 0)

\* validate_dsl succeeded on the payload text_to_dsl held after reading reply k:
\* the stub when the first reply was no JSON, else the JSON of the reply
ValidAfter(c, k) ==
  \/ k = 1 /\ c.replies[k].kind # "json"
  \/ c.replies[k].kind = "json" /\ PassesSchema(c.replies[k].data)

\* C22: text_to_dsl calls the repair function at most MAX_REPAIR_ATTEMPTS times
\* whatever the LLM answers, makes no LLM call at all when the LLM is not in
\* use, makes no repair call once validation has succeeded, and returns a
\* payload.
C22_RepairLoopCapped ==
  \A i \in GenerateCalls :
    /\ RepairCalls(calls[i]) \in 0..MAX_REPAIR_ATTEMPTS
    /\ ~TriedLlm(calls[i]) => calls[i].replies = <<>>
    /\ \A k \in DOMAIN calls[i].replies :
         ValidAfter(calls[i], k) => Len(calls[i].replies) = k
    /\ DOMAIN calls[i].dsl_dict # {}

\* a call used both repair attempts on JSON that failed validation, and a
\* further reply was in store
C22_Witness ==
  \E i \in GenerateCalls :
    /\ RepairCalls(calls[i]) = MAX_REPAIR_ATTEMPTS
    /\ \A k \in DOMAIN calls[i].replies :
         calls[i].replies[k].kind = "json" /\ ~PassesSchema(calls[i].replies[k].data)

\* the positions of the node cells of a document drawn for the node id nid
NodeCellsFor(c, nid) ==
  {k \in DOMAIN c.cells : c.cells[k].kind = "node" /\ c.cells[k].ent = nid}

\* C23 as stated: a returned document holds as many node cells as the graph
\* returned by validate_and_prepare_dsl has nodes, and as many cells for a node id
\* as the graph has nodes of that id: no node is drawn twice.
C23_EachNodeDrawnOnce ==
  \A i \in RenderCalls :
    calls[i].status = "ok" =>
      /\ Cardinality({k \in DOMAIN calls[i].cells : calls[i].cells[k].kind = "node"})
           = Len(calls[i].graph.nodes)
      /\ \A n \in DOMAIN calls[i].graph.nodes :
           Cardinality(NodeCellsFor(calls[i], calls[i].graph.nodes[n].id))
             = Cardinality({m \in DOMAIN calls[i].graph.nodes :
                              calls[i].graph.nodes[m].id = calls[i].graph.nodes[n].id})

\* both ends of a boundary are ids of zones of the payload
EndsExist(g, tb) ==
  /\ Len(tb.between_zones) >= 2
  /\ \A e \in 1..2 : \E k \in DOMAIN g.zones : g.zones[k].id = tb.between_zones[e]

\* C24 as stated: a trust boundary of the payload whose two ends are ids of
\* zones of the payload still names zones of the normalized graph, and a
\* returned document holds its line cell and its label cell.
C24_BoundariesFollowRenaming ==
  \A i \in RenderCalls :
    calls[i].status = "ok" =>
      \A t \in DOMAIN calls[i].arg.trust_boundaries :
        EndsExist(calls[i].arg, calls[i].arg.trust_boundaries[t]) =>
          /\ \A e \in 1..2 :
               calls[i].graph.trust_boundaries[t].between_zones[e]
                 \in Range(Ids(calls[i].graph.zones))
          /\ \E c \in CellsOf(calls[i], "tb") :
               c.ent = calls[i].arg.trust_boundaries[t].id
          /\ \E c \in CellsOf(calls[i], "tblbl") :
               c.ent = calls[i].arg.trust_boundaries[t].id

\* the zone containers of a document that were emitted for the first n zones of
\* the prepared graph, which are the zones of the payload, and for the others,
\* which expansion added
InputZoneIds(c) == {c.graph.zones[k].id : k \in 1..Len(c.arg.zones)}
SynthZoneIds(c) == {c.graph.zones[k].id : k \in (Len(c.arg.zones) + 1)..Len(c.graph.zones)}

\* C25 as stated: in a returned document every container of a synthesized zone
\* lies below every container of a zone of the payload, whatever the order
\* values of the payload's zones.
C25_SynthesizedZonesBelow ==
  \A i \in RenderCalls :
    calls[i].status = "ok" =>
      \A s, z \in CellsOf(calls[i], "zone") :
        (s.ent \in SynthZoneIds(calls[i]) /\ z.ent \in InputZoneIds(calls[i])) => s.y > z.y

\* s starts with t
StartsWith(s, t) == Len(s) >= Len(t) /\ SubSeq(s, 1, Len(t)) = t

\* the nodes, flows and boundaries of the payload lead the collections of the
\* returned graph, in their order, with at most a node's zone rewritten
InputKept(c) ==
  /\ Len(c.graph.nodes) >= Len(c.arg.nodes)
  /\ \A k \in DOMAIN c.arg.nodes :
       c.graph.nodes[k] = [c.arg.nodes[k] EXCEPT !.zone = c.graph.nodes[k].zone]
  /\ StartsWith(c.graph.flows, c.arg.flows)
  /\ StartsWith(c.graph.trust_boundaries, c.arg.trust_boundaries)

\* C26 as stated: whenever validate_and_prepare_dsl succeeds with expansion on,
\* the nodes, flows and trust boundaries of the input lead those of the returned
\* graph, for every input, an input without zones included.
C26_ExpansionOnlyAppends ==
  \A i \in ValidateCalls :
    (calls[i].status = "ok" /\ calls[i].params.expand_to_meet_density) =>
      InputKept(calls[i])

\* C26 amended: the same for every input that has a zone; for an input without
\* zones the returned graph is the one synthesized from an empty graph, with
\* min_zones zones and min_nodes nodes, whatever nodes, flows and boundaries the
\* input held.
C26_ExpansionAppendsToZonedInput ==
  \A i \in ValidateCalls :
    (calls[i].status = "ok" /\ calls[i].params.expand_to_meet_density) =>
      /\ calls[i].arg.zones # <<>> => InputKept(calls[i])
      /\ calls[i].arg.zones = <<>> =>
           /\ Len(calls[i].graph.zones) = calls[i].params.min_zones
           /\ Len(calls[i].graph.nodes) = calls[i].params.min_nodes
           /\ calls[i].graph =
                _expand_dsl_to_density(EmptyGraph, <<>>, calls[i].params.min_zones,
                                       calls[i].params.min_nodes,
                                       calls[i].params.min_flows).graph

\* a call with expansion on returned a graph for a payload with a zone, a node
\* and a flow, rewrote the zone of a node and appended a node
C26_Witness ==
  \E i \in ValidateCalls :
    /\ calls[i].status = "ok" /\ calls[i].params.expand_to_meet_density
    /\ calls[i].arg.zones # <<>> /\ calls[i].arg.flows # <<>>
    /\ \E k \in DOMAIN calls[i].arg.nodes : calls[i].graph.nodes[k].zone # calls[i].arg.nodes[k].zone
    /\ Len(calls[i].graph.nodes) > Len(calls[i].arg.nodes)
    /\ InputKept(calls[i])

====
